---- MODULE Spec2Model ----
(***************************************************************************)
(* State-machine model of the concurrent feed-refresh engine of lirer:     *)
(* src-tauri/src/models/async_feed_fetcher.rs (AsyncFeedFetcher, its       *)
(* dispatcher worker_loop, the spawned fetch tasks with fetch_with_retry,  *)
(* and the refresh coordinator's progress state).                          *)
(***************************************************************************)
EXTENDS Integers, Sequences, FiniteSets, TLC

(* ------------------------------ bounds --------------------------------- *)
\* number of queue_feed calls explored
MaxTasks == 2
\* largest config.max_concurrent_requests explored
MaxConcurrent == 2
\* largest config.max_retries explored by the scheduler's specification
MaxRetries == 1
\* largest config.max_retries explored by fetch_with_retry's specification
MaxRetriesDeep == 3
\* largest number of rows one save inserts
MaxEntriesAdded == 0
\* number of queue_feed calls explored by the coordinator's specification
MaxCoordTasks == 2
\* largest argument of start_refresh_operation explored
MaxTotalFeeds == 2
\* number of start_refresh_operation calls explored
MaxRefreshOps == 1
\* number of start_refresh_operation calls explored where one refresh
\* follows another
MaxRefreshOpsDeep == 2
\* number of calls of the public complete_feed_refresh explored
MaxPublicCompletions == 1

\* largest attempt index passed to calculate_exponential_backoff
MaxAttempt == 33
\* largest base_retry_delay and max_retry_delay explored (time units)
MaxBaseDelay == 2
MaxCapDelay == 5
\* number of hosts, of concurrent callers and of calls of wait_if_needed, the
\* largest min_delay (seconds) and the last clock tick explored
MaxHosts == 2
MaxCallers == 2
MaxCalls == 3
MaxMinDelay == 6
MaxClock == 6
\* number of feed rows in the store, of calls of handle_fetch_result_with_db
\* and the length of the longest document
MaxFeeds == 2
MaxHandlers == 2
MaxEntries == 2
\* number of commands invoked
MaxCommands == 2
\* largest config.request_timeout and the last tick of an attempt's clock
MaxRequestTimeout == 2
MaxElapsed == 3
\* number of concurrent callers of the coordinator's methods and of their
\* calls
MaxLockCallers == 3
MaxLockCalls == 4

(* --------------------------- program constants ------------------------- *)
\* enum FetchPriority { Low = 0, Normal = 1, High = 2, Critical = 3 }
Low == 0
Normal == 1
High == 2
Critical == 3
FetchPriority == {Low, Normal, High, Critical}

\* Option<T>: None and Some(x); Unset is the None of a string-valued option
None == <<>>
Some(x) == <<x>>
Unset == "None"

\* wait_if_needed: Duration::from_secs(5), the longest wait it sleeps through
RateLimitMaxWait == 5
\* u32 values are kept as two 16-bit halves [hi, lo]: 2^16
U32Half == 65536

Hosts == 1..MaxHosts
Callers == 1..MaxCallers
\* a caller that is not inside wait_if_needed
\* (prev, slept, overlapped and returned_at observe the call: the timestamp
\* recorded for the host when the call was made, whether it slept, whether
\* another call for the same host was in progress during it, and when it
\* returned)
IdleCall ==
    [pc |-> "idle", domain |-> 0, now |-> 0, wait_time |-> 0, wake |-> 0,
     ret |-> Unset, prev |-> None, slept |-> FALSE, overlapped |-> FALSE,
     returned_at |-> 0]

\* the feeds table holds the rows 1..MaxFeeds, the row f with the URL f; the
\* URL MaxFeeds + 1 has no row
FeedIds == 1..MaxFeeds
Urls == 1..(MaxFeeds + 1)
HandlerIds == 1..MaxHandlers
\* ParsedEntry.link: absent, empty, or one of two links
Links == {None, Some(""), Some("a"), Some("b")}
\* ParsedFeed.entries, as the sequence of the entries' links
Documents == UNION {[1..n -> Links] : n \in 0..MaxEntries}

\* the RwLocks of the coordinator, by the field they guard, and their callers
Locks == {"refresh_progress", "last_refresh_summary"}
LockCallers == 1..MaxLockCallers
\* a caller that is in none of the coordinator's methods
IdleLockCall == [op |-> Unset, pc |-> "idle", arg |-> None, summary |-> None]

\* errors a fetch_single attempt can return
FetchSingleErrors == {"NetworkError", "ParseError", "Timeout"}
\* enum FeedFetchError
FeedFetchError == FetchSingleErrors \cup {"RateLimited", "TooManyRetries"}

VARIABLES
    config,               \* FetcherConfig: max_concurrent_requests, max_retries
    db,                   \* AsyncFeedFetcher.db is Some(..)
    is_running,           \* AsyncFeedFetcher.is_running
    task_channel,         \* unbounded mpsc channel task_sender -> task_receiver
    receiver_open,        \* task_receiver not yet dropped (worker_loop has not returned)
    dispatcher,           \* position of worker_loop
    received,             \* the task recv() returned, before the is_running check
    task_queue,           \* the BinaryHeap of worker_loop, as a set of tasks
    priority_task,        \* the task popped, waiting for a permit
    permits,              \* free permits of the semaphore
    workers,              \* spawned fetch tasks that have not ended: id -> local state
    result_channel,       \* unbounded mpsc channel result_sender -> result_receiver
    refresh_progress,     \* RefreshProgressState
    last_refresh_summary, \* AsyncFeedFetcher.last_refresh_summary
    n_queued,             \* number of queue_feed calls so far (next task identity)
    n_refresh_ops,        \* number of start_refresh_operation calls so far
    n_public,             \* number of public complete_feed_refresh calls so far
    history,              \* observations of the run (not program state)
    backoff,              \* a call of calculate_exponential_backoff: inputs, result
    rate_limiter,         \* RateLimiter: min_delay, last_request_times
    clock,                \* the monotonic clock Instant::now() reads
    calls,                \* the callers of wait_if_needed: caller -> local state
    n_calls,              \* number of wait_if_needed calls so far
    limiter_log,          \* per host, the calls that returned Ok: how many,
                          \* when the first was made and the last returned,
                          \* whether none overlapped (not program state)
    store,                \* the database: the feeds and feed_entries tables
    handlers,             \* the calls of handle_fetch_result_with_db: id -> local state
    request,              \* a call of fetch_single: its position, the server's timing
    command,              \* the application state and the last command invoked
    rwlocks,              \* the RwLocks of the coordinator: holders and waiters
    lock_calls,           \* the calls that take those locks: caller -> local state
    n_lock_calls          \* number of such calls so far

vars == <<config, db, is_running, task_channel, receiver_open, dispatcher,
          received, task_queue, priority_task, permits, workers,
          result_channel, refresh_progress, last_refresh_summary,
          n_queued, n_refresh_ops, n_public, history,
          backoff, rate_limiter, clock, calls, n_calls, limiter_log,
          store, handlers, request, command,
          rwlocks, lock_calls, n_lock_calls>>

ctlVars   == <<config, db>>
lockVars  == <<rwlocks, lock_calls, n_lock_calls>>
schedVars == <<task_channel, receiver_open, dispatcher, received, task_queue,
               priority_task, n_queued>>
coordVars == <<refresh_progress, last_refresh_summary, n_refresh_ops, n_public>>
backoffVars == <<backoff>>
fetcherVars == <<ctlVars, lockVars, is_running, schedVars, permits, workers,
                 result_channel, coordVars, history>>
limiterVars == <<rate_limiter, clock, calls, n_calls, limiter_log>>
extVars == <<store, handlers, request, command>>

(* ------------------------------ helpers -------------------------------- *)
\* impl Default for RefreshProgressState
DefaultRefreshProgressState ==
    [is_active |-> FALSE, total_feeds |-> 0, completed_feeds |-> 0,
     failed_feeds |-> 0, current_feed_url |-> None, start_time |-> None,
     errors |-> <<>>, feed_statuses |-> <<>>, last_summary |-> None]

\* impl Ord for FeedFetchTask: tasks compare by priority alone
TaskCmpGe(a, b) == a.priority >= b.priority

\* a pop that ignores the order (a FIFO queue in place of the heap)
HeapTop_AnyTask(heap) == heap

\* BinaryHeap::pop: the tasks pop may return, a greatest one under Ord
HeapTop(heap) == {t \in heap : \A u \in heap : TaskCmpGe(t, u)}

\* the observations of a run: the order in which fetches were spawned, the
\* heap at the first pop, the summaries built since the last
\* start_refresh_operation and the last summary built at all, whether
\* start() was ever called, whether stop() was called with no start() since,
\* the argument of the last start_refresh_operation, and how many tasks had
\* been queued when it was called
InitHistory ==
    [fetch_order |-> <<>>, first_heap |-> None, emitted |-> <<>>,
     last_emitted |-> None, ever_started |-> FALSE, stopped |-> FALSE,
     requested_total |-> None, queued_before |-> 0]

(* ------------------------------- Init ---------------------------------- *)
\* AsyncFeedFetcher::new_with_db, for the configurations in `configs`: the
\* fetcher, its channels and the dispatcher it spawns
InitFetcher(configs, dbs) ==
    /\ config \in configs
    /\ db \in dbs
    /\ is_running = FALSE
    /\ task_channel = <<>>
    /\ receiver_open = TRUE
    /\ dispatcher = "recv"
    /\ received = None
    /\ task_queue = {}
    /\ priority_task = None
    /\ permits = config.max_concurrent_requests
    /\ workers = <<>>
    /\ result_channel = <<>>
    /\ refresh_progress = DefaultRefreshProgressState
    /\ last_refresh_summary = None
    /\ n_queued = 0
    /\ n_refresh_ops = 0
    /\ n_public = 0
    /\ history = InitHistory

\* no call of calculate_exponential_backoff under observation
IdleBackoff ==
    backoff = [attempt |-> 0, base_retry_delay |-> 0, max_retry_delay |-> 0,
               called |-> FALSE, delay |-> None]

\* the values of min_delay explored: none, a short one, and those around
\* the longest wait wait_if_needed sleeps through
MinDelays == {0, 2} \cup (RateLimitMaxWait..MaxMinDelay)

\* RateLimiter::new(min_delay) for the delays in `delays`: no timestamp
\* recorded, no caller inside wait_if_needed
InitLimiter(delays) ==
    /\ rate_limiter \in [min_delay : delays,
                          last_request_times : {[h \in Hosts |-> None]}]
    /\ clock = 0
    /\ calls = [c \in Callers |-> IdleCall]
    /\ n_calls = 0
    /\ limiter_log = [h \in Hosts |->
                        [returned_ok |-> 0, first_entered |-> 0,
                         last_returned |-> 0, sequential |-> TRUE]]

\* a call of handle_fetch_result_with_db that has not been made yet
\* (inserted, stored_before, overlapped and updated observe the call: the
\* links it inserted, the links stored under its feed when its save began,
\* whether another save for the same feed ran during its save, and whether
\* it wrote last_fetched_at)
IdleHandler ==
    [pc |-> "idle", fetch_result |-> [url |-> 0, result |-> Unset,
                                      retry_count |-> 0],
     parsed_feed |-> <<>>, feed |-> None, index |-> 1, entries_added |-> 0,
     save |-> Unset, inserted |-> <<>>, stored_before |-> {},
     overlapped |-> FALSE, updated |-> FALSE]

\* the database after the migrations and create_feed for the feeds of one of
\* the given sets: no entry, no feed fetched yet; no handler running
InitStoreWith(feed_sets) ==
    /\ store \in {[feeds |-> [f \in ids |->
                                 [url |-> f, last_fetched_at |-> None]],
                    feed_entries |-> <<>>] : ids \in feed_sets}
    /\ handlers = [h \in HandlerIds |-> IdleHandler]

\* the database with every feed of FeedIds stored
InitStore == InitStoreWith({FeedIds})

\* no call of fetch_single under observation
IdleRequest ==
    request = [pc |-> "idle"]

\* no command invoked
IdleCommand ==
    command = [pc |-> "idle"]

\* the RwLocks after construction: nobody holds or awaits them
InitLocks ==
    /\ rwlocks = [l \in Locks |-> [holders |-> {}, waiters |-> <<>>]]
    /\ lock_calls = [c \in LockCallers |-> IdleLockCall]
    /\ n_lock_calls = 0

\* AsyncFeedFetcher::new_with_db, with a rate limiter nobody calls directly
InitWith(configs, dbs) ==
    /\ InitFetcher(configs, dbs)
    /\ IdleBackoff
    /\ InitLimiter({0})
    /\ InitStore
    /\ IdleRequest
    /\ IdleCommand
    /\ InitLocks

(* --------------------------- control surface --------------------------- *)
\* AsyncFeedFetcher::start
Start ==
    /\ is_running' = TRUE
    /\ history' = [history EXCEPT !.ever_started = TRUE, !.stopped = FALSE]
    /\ UNCHANGED <<ctlVars, lockVars, backoffVars, limiterVars, extVars, schedVars, permits,
                   workers, result_channel, coordVars>>

\* AsyncFeedFetcher::stop
Stop ==
    /\ is_running' = FALSE
    /\ history' = [history EXCEPT !.stopped = TRUE]
    /\ UNCHANGED <<ctlVars, lockVars, backoffVars, limiterVars, extVars, schedVars, permits,
                   workers, result_channel, coordVars>>

\* AsyncFeedFetcher::queue_feed: send fails only when the receiver was dropped.
\* The k-th call passes the URL k, so a task is known by its URL.
QueueFeed(priority) ==
    /\ n_queued < MaxTasks
    /\ n_queued' = n_queued + 1
    /\ task_channel' =
         IF receiver_open
         THEN Append(task_channel,
                     [url |-> n_queued + 1, priority |-> priority,
                      retry_count |-> 0])
         ELSE task_channel
    /\ UNCHANGED <<ctlVars, lockVars, backoffVars, limiterVars, extVars, is_running, receiver_open, dispatcher, received,
                   task_queue, priority_task, permits, workers, result_channel,
                   coordVars, history>>

\* AsyncFeedFetcher::get_results: drains the result channel
GetResults ==
    /\ result_channel # <<>>
    /\ result_channel' = <<>>
    /\ UNCHANGED <<ctlVars, lockVars, backoffVars, limiterVars, extVars, is_running, schedVars, permits, workers,
                   coordVars, history>>

(* ------------------------------ dispatcher ----------------------------- *)
\* worker_loop: task_receiver.recv().await returned Some(task)
DispatcherRecv ==
    /\ dispatcher = "recv"
    /\ task_channel # <<>>
    /\ received' = Some(Head(task_channel))
    /\ task_channel' = Tail(task_channel)
    /\ dispatcher' = "check"
    /\ UNCHANGED <<ctlVars, lockVars, backoffVars, limiterVars, extVars, is_running, receiver_open, task_queue,
                   priority_task, n_queued, permits, workers, result_channel,
                   coordVars, history>>

\* worker_loop: if !*is_running.read().await { break }: the loop ends, the
\* function returns and drops the receiver, the heap and the task in hand
DispatcherBreak ==
    /\ dispatcher = "check"
    /\ ~is_running
    /\ dispatcher' = "exited"
    /\ received' = None
    /\ task_queue' = {}
    /\ task_channel' = <<>>
    /\ receiver_open' = FALSE
    /\ UNCHANGED <<ctlVars, lockVars, backoffVars, limiterVars, extVars, is_running, priority_task, n_queued, permits,
                   workers, result_channel, coordVars, history>>

\* a dispatcher that does not look at is_running
DispatcherPushDrain_Unchecked ==
    /\ dispatcher = "check"
    /\ task_queue' = task_queue \cup {received[1]}
                       \cup {task_channel[i] : i \in 1..Len(task_channel)}
    /\ task_channel' = <<>>
    /\ received' = None
    /\ dispatcher' = "pop"
    /\ UNCHANGED <<ctlVars, lockVars, backoffVars, limiterVars, extVars, is_running,
                   receiver_open, priority_task, n_queued, permits, workers,
                   result_channel, coordVars, history>>

\* worker_loop: push the received task, then drain try_recv into the heap
DispatcherPushDrain ==
    /\ dispatcher = "check"
    /\ is_running
    /\ task_queue' = task_queue \cup {received[1]}
                       \cup {task_channel[i] : i \in 1..Len(task_channel)}
    /\ task_channel' = <<>>
    /\ received' = None
    /\ dispatcher' = "pop"
    /\ UNCHANGED <<ctlVars, lockVars, backoffVars, limiterVars, extVars, is_running, receiver_open, priority_task, n_queued,
                   permits, workers, result_channel, coordVars, history>>

\* worker_loop: if let Some(priority_task) = task_queue.pop()
DispatcherPop ==
    /\ dispatcher = "pop"
    /\ \E t \in HeapTop(task_queue) :
          /\ priority_task' = Some(t)
          /\ task_queue' = task_queue \ {t}
    /\ dispatcher' = "acquire"
    /\ history' = [history EXCEPT
                     !.first_heap = IF @ = None THEN Some(task_queue) ELSE @]
    /\ UNCHANGED <<ctlVars, lockVars, backoffVars, limiterVars, extVars, is_running, task_channel, receiver_open, received,
                   n_queued, permits, workers, result_channel, coordVars>>

\* the local state of a spawned fetch task when it starts: `task` is
\* priority_task, `retry_count` is the retry_count of the clone that
\* fetch_with_retry owns; attempts, failures, sleeps and last_outcome observe
\* the fetch_single calls and backoff sleeps made (not program state)
NewWorker(task) ==
    [task |-> task, pc |-> "update_progress", attempt |-> 0,
     retry_count |-> task.retry_count, last_error |-> Unset, result |-> Unset,
     attempts |-> 0, failures |-> 0, sleeps |-> 0, last_outcome |-> Unset]

\* a spawn that does not wait for a permit
DispatcherSpawn_NoPermit ==
    /\ dispatcher = "acquire"
    /\ permits' = permits
    /\ workers' = [i \in DOMAIN workers \cup {priority_task[1].url} |->
                     IF i = priority_task[1].url
                     THEN NewWorker(priority_task[1])
                     ELSE workers[i]]
    /\ priority_task' = None
    /\ dispatcher' = "recv"
    /\ history' = [history EXCEPT
                     !.fetch_order = Append(@, priority_task[1].url)]
    /\ UNCHANGED <<ctlVars, lockVars, backoffVars, limiterVars, extVars, is_running, task_channel, receiver_open, received,
                   task_queue, n_queued, result_channel, coordVars>>

\* worker_loop: semaphore.acquire_owned().await, then tokio::spawn; the loop
\* goes back to recv().await
DispatcherSpawn ==
    /\ dispatcher = "acquire"
    /\ permits > 0
    /\ permits' = permits - 1
    /\ workers' = [i \in DOMAIN workers \cup {priority_task[1].url} |->
                     IF i = priority_task[1].url
                     THEN NewWorker(priority_task[1])
                     ELSE workers[i]]
    /\ priority_task' = None
    /\ dispatcher' = "recv"
    /\ history' = [history EXCEPT
                     !.fetch_order = Append(@, priority_task[1].url)]
    /\ UNCHANGED <<ctlVars, lockVars, backoffVars, limiterVars, extVars, is_running, task_channel, receiver_open, received,
                   task_queue, n_queued, result_channel, coordVars>>

(* ------------------------- refresh coordinator ------------------------- *)
\* a completion that records the error but does not count the failure
Completed_ForgetsFailure(p, feed_status, error) ==
    [p EXCEPT !.completed_feeds = @ + 1,
              !.errors = IF error # None THEN Append(@, error[1]) ELSE @,
              !.feed_statuses = Append(@, feed_status)]

\* a completion that counts a failed feed as failed only
Completed_FailedOnly(p, feed_status, error) ==
    [p EXCEPT !.completed_feeds = IF error # None THEN @ ELSE @ + 1,
              !.failed_feeds = IF error # None THEN @ + 1 ELSE @,
              !.errors = IF error # None THEN Append(@, error[1]) ELSE @,
              !.feed_statuses = Append(@, feed_status)]

\* a completion that keeps the status of successful feeds only
Completed_SuccessStatusOnly(p, feed_status, error) ==
    [p EXCEPT !.completed_feeds = @ + 1,
              !.failed_feeds = IF error # None THEN @ + 1 ELSE @,
              !.errors = IF error # None THEN Append(@, error[1]) ELSE @,
              !.feed_statuses = IF error # None THEN @
                                ELSE Append(@, feed_status)]

\* complete_feed_refresh(_internal): the counters and lists after one
\* completion
Completed(p, feed_status, error) ==
    [p EXCEPT !.completed_feeds = @ + 1,
              !.failed_feeds = IF error # None THEN @ + 1 ELSE @,
              !.errors = IF error # None THEN Append(@, error[1]) ELSE @,
              !.feed_statuses = Append(@, feed_status)]

\* a completeness check that needs one completion too many
IsComplete_Strict(p) == p.completed_feeds > p.total_feeds

\* a completion check that holds only when the counter equals the total
IsComplete_Exact(p) == p.completed_feeds = p.total_feeds

\* complete_feed_refresh(_internal): if progress.completed_feeds >= progress.total_feeds
IsComplete(p) == p.completed_feeds >= p.total_feeds

\* complete_feed_refresh(_internal): the RefreshSummary built from the progress
BuildSummary(p) ==
    [total_processed |-> p.total_feeds,
     successful_count |-> p.completed_feeds - p.failed_feeds,
     failed_count |-> p.failed_feeds,
     feeds_updated |-> p.feed_statuses,
     errors |-> p.errors]

\* complete_feed_refresh(_internal): whether this completion builds a summary
EmitsSummary(p) == IsComplete(p) /\ p.start_time # None

\* complete_feed_refresh_internal: the progress state it leaves
CompleteInternal(p, feed_status, error) ==
    LET p1 == Completed(p, feed_status, error) IN
    IF IsComplete(p1)
    THEN [p1 EXCEPT !.is_active = FALSE, !.current_feed_url = None,
                    !.last_summary =
                        IF p1.start_time # None THEN Some(BuildSummary(p1))
                        ELSE @]
    ELSE p1

\* complete_feed_refresh: the progress state it leaves (the summary goes to
\* last_refresh_summary)
CompletePublic(p, feed_status, error) ==
    LET p1 == Completed(p, feed_status, error) IN
    IF IsComplete(p1)
    THEN [p1 EXCEPT !.is_active = FALSE, !.current_feed_url = None]
    ELSE p1

\* the summaries built so far for the current operation, after a completion
Emitted(h, p1) ==
    [h EXCEPT !.emitted = IF EmitsSummary(p1)
                          THEN Append(@, BuildSummary(p1)) ELSE @,
              !.last_emitted = IF EmitsSummary(p1)
                               THEN Some(BuildSummary(p1)) ELSE @]

\* a reset that keeps the errors and feed statuses of the previous operation
StartRefreshOperationUpTo_KeepsLists(total_feeds, max_ops) ==
    /\ n_refresh_ops < max_ops
    /\ n_refresh_ops' = n_refresh_ops + 1
    /\ refresh_progress' =
         [refresh_progress EXCEPT
            !.is_active = TRUE, !.total_feeds = total_feeds,
            !.completed_feeds = 0, !.failed_feeds = 0,
            !.current_feed_url = None, !.start_time = Some("now"),
            !.last_summary = None]
    /\ history' = [history EXCEPT !.emitted = <<>>,
                                  !.requested_total = Some(total_feeds),
                                  !.queued_before = n_queued]
    /\ UNCHANGED <<ctlVars, lockVars, backoffVars, limiterVars, extVars, is_running, schedVars,
                   permits, workers, result_channel, last_refresh_summary,
                   n_public>>

\* AsyncFeedFetcher::start_refresh_operation, for at most max_ops calls
StartRefreshOperationUpTo(total_feeds, max_ops) ==
    /\ n_refresh_ops < max_ops
    /\ n_refresh_ops' = n_refresh_ops + 1
    /\ refresh_progress' =
         [is_active |-> TRUE, total_feeds |-> total_feeds,
          completed_feeds |-> 0, failed_feeds |-> 0,
          current_feed_url |-> None, start_time |-> Some("now"),
          errors |-> <<>>, feed_statuses |-> <<>>, last_summary |-> None]
    /\ history' = [history EXCEPT !.emitted = <<>>,
                                  !.requested_total = Some(total_feeds),
                                  !.queued_before = n_queued]
    /\ UNCHANGED <<ctlVars, lockVars, backoffVars, limiterVars, extVars, is_running, schedVars,
                   permits, workers, result_channel, last_refresh_summary,
                   n_public>>

\* AsyncFeedFetcher::start_refresh_operation
StartRefreshOperation(total_feeds) ==
    StartRefreshOperationUpTo(total_feeds, MaxRefreshOps)

\* AsyncFeedFetcher::complete_feed_refresh
CompleteFeedRefresh(feed_status, error) ==
    /\ n_public < MaxPublicCompletions
    /\ n_public' = n_public + 1
    /\ LET p1 == Completed(refresh_progress, feed_status, error) IN
         /\ refresh_progress' =
              CompletePublic(refresh_progress, feed_status, error)
         /\ last_refresh_summary' =
              IF EmitsSummary(p1) THEN Some(BuildSummary(p1))
              ELSE last_refresh_summary
         /\ history' = Emitted(history, p1)
    /\ UNCHANGED <<ctlVars, lockVars, backoffVars, limiterVars, extVars, is_running, schedVars, permits, workers,
                   result_channel, n_refresh_ops>>

\* get_last_refresh_summary: the value a call returns in this state
LastRefreshSummaryResult ==
    IF refresh_progress.last_summary # None
    THEN refresh_progress.last_summary
    ELSE last_refresh_summary

\* AsyncFeedFetcher::get_last_refresh_summary
GetLastRefreshSummary ==
    /\ refresh_progress.last_summary # None
    /\ last_refresh_summary' = refresh_progress.last_summary
    /\ UNCHANGED <<ctlVars, lockVars, backoffVars, limiterVars, extVars, is_running, schedVars, permits, workers,
                   result_channel, refresh_progress, n_refresh_ops, n_public,
                   history>>

\* get_refresh_progress: progress_percentage, the f32 value of
\* (completed_feeds / total_feeds) * 100.0 kept as the fraction num / den
\* (for counters this small the rounding of f32 moves no value across 0 or
\* 100), and 0.0 when total_feeds is 0
ProgressPercentage(p) ==
    IF p.total_feeds > 0
    THEN [num |-> p.completed_feeds * 100, den |-> p.total_feeds]
    ELSE [num |-> 0, den |-> 1]

\* the usize subtraction a - b: the difference, or no value when b > a (a
\* panic in a build with overflow checks, a wrapped value without them)
UsizeSub(a, b) == IF a >= b THEN Some(a - b) ELSE None

\* get_refresh_progress: remaining_feeds
RemainingFeeds(p) == UsizeSub(p.total_feeds, p.completed_feeds)

\* get_refresh_progress: estimated_time_remaining. The elapsed time per
\* completed feed is the clock's; the estimate is kept as its other factor,
\* remaining_feeds
EstimatedTimeRemaining(p) ==
    IF p.is_active /\ p.completed_feeds > 0
    THEN IF p.start_time # None
         THEN Some([remaining_feeds |-> RemainingFeeds(p)])
         ELSE None
    ELSE None

\* AsyncFeedFetcher::get_refresh_progress: the value a call returns in this
\* state
GetRefreshProgress ==
    [is_active |-> refresh_progress.is_active,
     total_feeds |-> refresh_progress.total_feeds,
     completed_feeds |-> refresh_progress.completed_feeds,
     failed_feeds |-> refresh_progress.failed_feeds,
     current_feed_url |-> refresh_progress.current_feed_url,
     progress_percentage |-> ProgressPercentage(refresh_progress),
     estimated_time_remaining |-> EstimatedTimeRemaining(refresh_progress),
     errors |-> refresh_progress.errors]

\* AsyncFeedFetcher::abort_refresh
AbortRefresh ==
    /\ refresh_progress' = [refresh_progress EXCEPT
                              !.is_active = FALSE, !.current_feed_url = None]
    /\ UNCHANGED <<ctlVars, lockVars, backoffVars, limiterVars, extVars, is_running, schedVars, permits, workers,
                   result_channel, last_refresh_summary, n_refresh_ops,
                   n_public, history>>

(* --------------------------- spawned fetch task ------------------------ *)
SetWorker(w, rec) == [workers EXCEPT ![w] = rec]

\* spawned task: Self::update_current_feed_progress, then fetch_with_retry
\* is entered
WorkerUpdateProgress(w) ==
    /\ workers[w].pc = "update_progress"
    /\ refresh_progress' = [refresh_progress EXCEPT
                              !.current_feed_url = Some(workers[w].task.url)]
    /\ workers' = SetWorker(w, [workers[w] EXCEPT !.pc = "rate_limit"])
    /\ UNCHANGED <<ctlVars, lockVars, backoffVars, limiterVars, extVars, is_running, schedVars, permits, result_channel,
                   last_refresh_summary, n_refresh_ops, n_public, history>>

\* a denial that surfaces only after the attempt's fetch_single was issued
WorkerRateLimit_AfterFetch(w, verdict) ==
    /\ workers[w].pc = "rate_limit"
    /\ workers' = SetWorker(w,
         IF verdict = "Ok"
         THEN [workers[w] EXCEPT !.retry_count = workers[w].attempt,
                                 !.pc = "fetch"]
         ELSE [workers[w] EXCEPT !.retry_count = workers[w].attempt,
                                 !.attempts = @ + 1,
                                 !.result = "RateLimited",
                                 !.pc = "finish"])
    /\ UNCHANGED <<ctlVars, lockVars, backoffVars, limiterVars, extVars, is_running, schedVars, permits, result_channel,
                   coordVars, history>>

\* fetch_with_retry: top of the iteration `attempt`: task.retry_count =
\* attempt; rate_limiter.wait_if_needed(&domain).await? with the given verdict
WorkerRateLimit(w, verdict) ==
    /\ workers[w].pc = "rate_limit"
    /\ workers' = SetWorker(w,
         IF verdict = "Ok"
         THEN [workers[w] EXCEPT !.retry_count = workers[w].attempt,
                                 !.pc = "fetch"]
         ELSE [workers[w] EXCEPT !.retry_count = workers[w].attempt,
                                 !.result = "RateLimited",
                                 !.pc = "finish"])
    /\ UNCHANGED <<ctlVars, lockVars, backoffVars, limiterVars, extVars, is_running, schedVars, permits, result_channel,
                   coordVars, history>>

\* a backoff that is also taken after the last attempt
ShouldBackoff_AfterLast(attempt, max_retries) == attempt <= max_retries

\* fetch_with_retry: if attempt < config.max_retries (sleep before retrying)
ShouldBackoff(attempt, max_retries) == attempt < max_retries

\* a loop that runs one attempt too many
HasNextAttempt_OneMore(attempt, max_retries) == attempt <= max_retries

\* fetch_with_retry: for attempt in 0..=config.max_retries: whether the range
\* holds an attempt after `attempt`
HasNextAttempt(attempt, max_retries) == attempt + 1 <= max_retries

\* fetch_with_retry: Err(last_error.unwrap_or(FeedFetchError::TooManyRetries))
AfterLoop(last_error) ==
    IF last_error = Unset THEN "TooManyRetries" ELSE last_error

\* fetch_with_retry: the end of one iteration of the for loop: the next
\* attempt, or the return after the loop
LoopNext(wk) ==
    IF HasNextAttempt(wk.attempt, config.max_retries)
    THEN [wk EXCEPT !.attempt = @ + 1, !.pc = "rate_limit"]
    ELSE [wk EXCEPT !.result = AfterLoop(wk.last_error), !.pc = "finish"]

\* an Err arm that leaves last_error as it was
AfterFetchSingle_ForgetsError(wk, outcome) ==
    LET seen == [wk EXCEPT !.attempts = @ + 1, !.last_outcome = outcome] IN
    IF outcome = "Ok"
    THEN [seen EXCEPT !.result = "Ok", !.pc = "finish"]
    ELSE LET failed == [seen EXCEPT !.failures = @ + 1] IN
         IF ShouldBackoff(wk.attempt, config.max_retries)
         THEN [failed EXCEPT !.pc = "backoff"]
         ELSE LoopNext(failed)

\* fetch_with_retry: the state after Self::fetch_single returned `outcome`
AfterFetchSingle(wk, outcome) ==
    LET seen == [wk EXCEPT !.attempts = @ + 1, !.last_outcome = outcome] IN
    IF outcome = "Ok"
    THEN [seen EXCEPT !.result = "Ok", !.pc = "finish"]
    ELSE LET failed == [seen EXCEPT !.last_error = outcome,
                                    !.failures = @ + 1] IN
         IF ShouldBackoff(wk.attempt, config.max_retries)
         THEN [failed EXCEPT !.pc = "backoff"]
         ELSE LoopNext(failed)

\* fetch_with_retry: match Self::fetch_single(&task.url, config).await
WorkerFetchSingle(w, outcome) ==
    /\ workers[w].pc = "fetch"
    /\ workers' = SetWorker(w, AfterFetchSingle(workers[w], outcome))
    /\ UNCHANGED <<ctlVars, lockVars, backoffVars, limiterVars, extVars, is_running, schedVars, permits, result_channel,
                   coordVars, history>>

\* fetch_with_retry: sleep(delay).await ends, which ends the iteration
WorkerBackoff(w) ==
    /\ workers[w].pc = "backoff"
    /\ workers' = SetWorker(w, LoopNext([workers[w] EXCEPT !.sleeps = @ + 1]))
    /\ UNCHANGED <<ctlVars, lockVars, backoffVars, limiterVars, extVars, is_running, schedVars, permits, result_channel,
                   coordVars, history>>

\* spawned task: the FeedFetchResult it builds: retry_count is
\* priority_task.retry_count, the field of the task the worker kept
FetchResultOf(wk) ==
    [url |-> wk.task.url, result |-> wk.result,
     retry_count |-> wk.task.retry_count]

\* handle_fetch_result_with_db: error_type of the RefreshError
ErrorType(e) ==
    CASE e = "NetworkError" -> "network"
      [] e = "ParseError" -> "parse"
      [] e = "Timeout" -> "timeout"
      [] e = "RateLimited" -> "rate_limited"
      [] e = "TooManyRetries" -> "too_many_retries"

\* handle_fetch_result_with_db: the progress state it leaves, for the outcome
\* of the feed lookup and of save_parsed_feed_to_database
HandleFetchResultWithDb(p, fr, lookup, save) ==
    IF lookup # "found" THEN p
    ELSE IF fr.result = "Ok"
    THEN IF save # None
         THEN CompleteInternal(p,
                [feed_url |-> fr.url, status |-> "success",
                 entries_added |-> save[1]], None)
         ELSE CompleteInternal(p,
                [feed_url |-> fr.url, status |-> "failed", entries_added |-> 0],
                Some([feed_url |-> fr.url, error_type |-> "database",
                      retry_count |-> fr.retry_count]))
    ELSE CompleteInternal(p,
           [feed_url |-> fr.url, status |-> "failed", entries_added |-> 0],
           Some([feed_url |-> fr.url, error_type |-> ErrorType(fr.result),
                 retry_count |-> fr.retry_count]))

\* the completion handle_fetch_result_with_db makes, as the progress before
\* the completeness check (None when the result is dropped)
InternalCompletion(p, fr, lookup, save) ==
    IF lookup # "found" THEN None
    ELSE IF fr.result = "Ok" /\ save # None
    THEN Some(Completed(p, [feed_url |-> fr.url, status |-> "success",
                            entries_added |-> save[1]], None))
    ELSE Some(Completed(p, [feed_url |-> fr.url, status |-> "failed",
                            entries_added |-> 0],
                        Some([feed_url |-> fr.url,
                              error_type |-> IF fr.result = "Ok" THEN "database"
                                             ELSE ErrorType(fr.result),
                              retry_count |-> fr.retry_count])))

\* a spawned task that stop() cancels: once is_running is false it ends
\* without recording or sending its result
WorkerFinish_CancelledByStop(w, lookup, save) ==
    /\ workers[w].pc = "finish"
    /\ LET fr == FetchResultOf(workers[w])
           p1 == InternalCompletion(refresh_progress, fr, lookup, save)
       IN
         /\ IF ~is_running
            THEN UNCHANGED <<refresh_progress, result_channel>>
            ELSE IF db
            THEN /\ refresh_progress' =
                      HandleFetchResultWithDb(refresh_progress, fr, lookup, save)
                 /\ result_channel' = result_channel
            ELSE /\ result_channel' = Append(result_channel, fr)
                 /\ refresh_progress' = refresh_progress
         /\ history' =
              IF is_running /\ db /\ p1 # None
              THEN Emitted(history, p1[1]) ELSE history
    /\ workers' = [i \in DOMAIN workers \ {w} |-> workers[i]]
    /\ permits' = permits + 1
    /\ UNCHANGED <<ctlVars, lockVars, backoffVars, limiterVars, extVars, is_running, schedVars,
                   last_refresh_summary, n_refresh_ops, n_public>>

\* spawned task: build the FeedFetchResult, record it (database bound) or
\* send it (no database), and end, which drops the permit
WorkerFinish(w, lookup, save) ==
    /\ workers[w].pc = "finish"
    /\ LET fr == FetchResultOf(workers[w])
           p1 == InternalCompletion(refresh_progress, fr, lookup, save)
       IN
         /\ IF db
            THEN /\ refresh_progress' =
                      HandleFetchResultWithDb(refresh_progress, fr, lookup, save)
                 /\ result_channel' = result_channel
            ELSE /\ result_channel' = Append(result_channel, fr)
                 /\ refresh_progress' = refresh_progress
         /\ history' =
              IF db /\ p1 # None THEN Emitted(history, p1[1]) ELSE history
    /\ workers' = [i \in DOMAIN workers \ {w} |-> workers[i]]
    /\ permits' = permits + 1
    /\ UNCHANGED <<ctlVars, lockVars, backoffVars, limiterVars, extVars, is_running, schedVars, last_refresh_summary,
                   n_refresh_ops, n_public>>

\* what the feed lookup and the save of handle_fetch_result_with_db can
\* yield: save_parsed_feed_to_database returns Err (None) or Ok(entries_added)
Lookups == {"found", "missing"}
SaveOutcomes == {None} \cup {Some(n) : n \in 0..MaxEntriesAdded}
\* what wait_if_needed and fetch_single can yield
Verdicts == {"Ok", "RateLimited"}
FetchOutcomes == {"Ok"} \cup FetchSingleErrors

\* the arguments process_refresh_results passes to complete_feed_refresh
PublicCompletions ==
    {<<[feed_url |-> 0, status |-> "success", entries_added |-> 0], None>>,
     <<[feed_url |-> 0, status |-> "failed", entries_added |-> 0],
       Some([feed_url |-> 0, error_type |-> "network", retry_count |-> 0])>>}

\* the steps of the spawned fetch task w, in an environment where the rate
\* limiter, the server, the feed lookup and the save answer from the given
\* sets
Worker(w, verdicts, outcomes, lookups, saves) ==
    \/ WorkerUpdateProgress(w)
    \/ \E v \in verdicts : WorkerRateLimit(w, v)
    \/ \E o \in outcomes : WorkerFetchSingle(w, o)
    \/ WorkerBackoff(w)
    \/ \E l \in lookups, s \in saves : WorkerFinish(w, l, s)

\* worker_loop
Dispatcher ==
    \/ DispatcherRecv
    \/ DispatcherBreak
    \/ DispatcherPushDrain
    \/ DispatcherPop
    \/ DispatcherSpawn

(* ------------------------------- the locks ----------------------------- *)
\* tokio RwLock: read().await or write().await joins the queue of the lock
Requested(lk, c, l, mode) ==
    [lk EXCEPT ![l].waiters = Append(@, <<c, mode>>)]

\* tokio RwLock: the lock is handed out in the order of the requests: the
\* first waiter gets it as soon as nobody holds it, a reader also while
\* only readers hold it
CanAcquire(lk, c, l) ==
    /\ lk[l].waiters # <<>>
    /\ Head(lk[l].waiters)[1] = c
    /\ IF Head(lk[l].waiters)[2] = "write"
       THEN lk[l].holders = {}
       ELSE \A h \in lk[l].holders : h[2] = "read"

Acquired(lk, c, l) ==
    [lk EXCEPT ![l].holders = @ \cup {Head(lk[l].waiters)},
               ![l].waiters = Tail(@)]

\* the guard of c for the lock l is dropped
Released(lk, c, l) ==
    [lk EXCEPT ![l].holders = {h \in @ : h[1] # c}]

Holds(c, l) == \E h \in rwlocks[l].holders : h[1] = c
Waits(c, l) ==
    \E i \in 1..Len(rwlocks[l].waiters) : rwlocks[l].waiters[i][1] = c

\* how each method of the coordinator asks for the progress lock
ProgressMode(op) ==
    IF op \in {"get_refresh_progress", "get_last_refresh_summary"}
    THEN "read" ELSE "write"

\* a get_last_refresh_summary that moves the summary under the write lock
\* of the progress state, asked for while it holds the read lock
SecondLock_Upgrade(op) ==
    IF op = "get_last_refresh_summary" THEN "refresh_progress"
    ELSE "last_refresh_summary"

\* complete_feed_refresh, get_last_refresh_summary: the lock taken while the
\* progress lock is held: self.last_refresh_summary.write().await
SecondLock(op) == "last_refresh_summary"

\* what a lock step leaves alone
LockFrame ==
    UNCHANGED <<ctlVars, is_running, schedVars, permits, workers,
                result_channel, n_refresh_ops, n_public, history,
                backoffVars, limiterVars, extVars>>

\* a method of the coordinator is called: self.refresh_progress.read().await
\* or .write().await
LockBegin(c, op, arg) ==
    /\ lock_calls[c].pc = "idle"
    /\ n_lock_calls < MaxLockCalls
    /\ n_lock_calls' = n_lock_calls + 1
    /\ lock_calls' = [lock_calls EXCEPT ![c] =
                        [op |-> op, pc |-> "wait_progress", arg |-> arg,
                         summary |-> None]]
    /\ rwlocks' = Requested(rwlocks, c, "refresh_progress", ProgressMode(op))
    /\ UNCHANGED <<refresh_progress, last_refresh_summary>>
    /\ LockFrame

\* the lock c awaits is handed to it
LockGrant(c) ==
    /\ lock_calls[c].pc \in {"wait_progress", "wait_summary",
                              "wait_summary_read"}
    /\ \E l \in Locks :
          /\ CanAcquire(rwlocks, c, l)
          /\ rwlocks' = Acquired(rwlocks, c, l)
    /\ lock_calls' = [lock_calls EXCEPT ![c].pc =
                        CASE @ = "wait_progress" -> "in_progress"
                          [] @ = "wait_summary" -> "in_summary"
                          [] @ = "wait_summary_read" -> "in_summary_read"]
    /\ n_lock_calls' = n_lock_calls
    /\ UNCHANGED <<refresh_progress, last_refresh_summary>>
    /\ LockFrame

\* the body of a method that takes the progress lock alone, under the lock:
\* start_refresh_operation, complete_feed_refresh_internal, abort_refresh,
\* get_refresh_progress; the guard is dropped at the return
LockedSingle(c) ==
    LET k == lock_calls[c] IN
    /\ k.pc = "in_progress"
    /\ k.op \in {"start_refresh_operation", "complete_feed_refresh_internal",
                 "abort_refresh", "get_refresh_progress"}
    /\ refresh_progress' =
         CASE k.op = "start_refresh_operation" ->
                [is_active |-> TRUE, total_feeds |-> k.arg[1],
                 completed_feeds |-> 0, failed_feeds |-> 0,
                 current_feed_url |-> None, start_time |-> Some("now"),
                 errors |-> <<>>, feed_statuses |-> <<>>,
                 last_summary |-> None]
           [] k.op = "complete_feed_refresh_internal" ->
                CompleteInternal(refresh_progress, k.arg[1], k.arg[2])
           [] k.op = "abort_refresh" ->
                [refresh_progress EXCEPT !.is_active = FALSE,
                                         !.current_feed_url = None]
           [] k.op = "get_refresh_progress" -> refresh_progress
    /\ rwlocks' = Released(rwlocks, c, "refresh_progress")
    /\ lock_calls' = [lock_calls EXCEPT ![c] = IdleLockCall]
    /\ UNCHANGED <<last_refresh_summary, n_lock_calls>>
    /\ LockFrame

\* complete_feed_refresh under the progress lock: the counters and lists;
\* when the refresh is complete and has a start_time, the summary is built
\* and self.last_refresh_summary.write().await is called with the progress
\* lock held
LockedComplete(c) ==
    LET k == lock_calls[c]
        p1 == Completed(refresh_progress, k.arg[1], k.arg[2])
    IN
    /\ k.pc = "in_progress"
    /\ k.op = "complete_feed_refresh"
    /\ refresh_progress' = CompletePublic(refresh_progress, k.arg[1], k.arg[2])
    /\ IF EmitsSummary(p1)
       THEN /\ rwlocks' = Requested(rwlocks, c, SecondLock(k.op), "write")
            /\ lock_calls' = [lock_calls EXCEPT
                                ![c].pc = "wait_summary",
                                ![c].summary = Some(BuildSummary(p1))]
       ELSE /\ rwlocks' = Released(rwlocks, c, "refresh_progress")
            /\ lock_calls' = [lock_calls EXCEPT ![c] = IdleLockCall]
    /\ UNCHANGED <<last_refresh_summary, n_lock_calls>>
    /\ LockFrame

\* get_last_refresh_summary under the read lock of the progress state: with
\* a summary there, self.last_refresh_summary.write().await is called with
\* the read lock held; without, the read lock is dropped and
\* self.last_refresh_summary.read().await is called
LockedGetLast(c) ==
    LET k == lock_calls[c] IN
    /\ k.pc = "in_progress"
    /\ k.op = "get_last_refresh_summary"
    /\ IF refresh_progress.last_summary # None
       THEN /\ rwlocks' = Requested(rwlocks, c, SecondLock(k.op), "write")
            /\ lock_calls' = [lock_calls EXCEPT
                                ![c].pc = "wait_summary",
                                ![c].summary = refresh_progress.last_summary]
       ELSE /\ rwlocks' = Requested(Released(rwlocks, c, "refresh_progress"),
                                    c, "last_refresh_summary", "read")
            /\ lock_calls' = [lock_calls EXCEPT ![c].pc = "wait_summary_read"]
    /\ UNCHANGED <<refresh_progress, last_refresh_summary, n_lock_calls>>
    /\ LockFrame

\* complete_feed_refresh, get_last_refresh_summary with both locks held:
\* *last_summary = Some(summary); both guards are dropped at the return
LockedStoreSummary(c) ==
    /\ lock_calls[c].pc = "in_summary"
    /\ last_refresh_summary' = lock_calls[c].summary
    /\ rwlocks' = Released(Released(rwlocks, c, "last_refresh_summary"),
                           c, "refresh_progress")
    /\ lock_calls' = [lock_calls EXCEPT ![c] = IdleLockCall]
    /\ UNCHANGED <<refresh_progress, n_lock_calls>>
    /\ LockFrame

\* get_last_refresh_summary: summary.clone() under the read lock of the
\* persistent slot, dropped at the return
LockedReadSummary(c) ==
    /\ lock_calls[c].pc = "in_summary_read"
    /\ rwlocks' = Released(rwlocks, c, "last_refresh_summary")
    /\ lock_calls' = [lock_calls EXCEPT ![c] = IdleLockCall]
    /\ UNCHANGED <<refresh_progress, last_refresh_summary, n_lock_calls>>
    /\ LockFrame

\* the steps of the call c is in, once made
LockStep(c) ==
    \/ LockGrant(c)
    \/ LockedSingle(c)
    \/ LockedComplete(c)
    \/ LockedGetLast(c)
    \/ LockedStoreSummary(c)
    \/ LockedReadSummary(c)

\* the calls of the coordinator's methods and their arguments
LockCallsOf ==
    {<<"start_refresh_operation", <<1>>>>, <<"abort_refresh", None>>,
     <<"get_refresh_progress", None>>, <<"get_last_refresh_summary", None>>}
      \cup {<<op, a>> : op \in {"complete_feed_refresh",
                                "complete_feed_refresh_internal"},
                        a \in PublicCompletions}

(* ------------------------------ rate limiter --------------------------- *)
Max(a, b) == IF a >= b THEN a ELSE b

\* the callers inside wait_if_needed for the host h, other than c
OthersInside(c, h) ==
    {d \in Callers \ {c} : calls[d].pc # "idle" /\ calls[d].domain = h}

\* wait_if_needed is entered for the host h: let now = Instant::now()
RlEnter(c, h) ==
    /\ calls[c].pc = "idle"
    /\ n_calls < MaxCalls
    /\ n_calls' = n_calls + 1
    /\ calls' = [d \in Callers |->
                   IF d = c
                   THEN [IdleCall EXCEPT
                           !.pc = "check", !.domain = h, !.now = clock,
                           !.prev = rate_limiter.last_request_times[h],
                           !.overlapped = OthersInside(c, h) # {}]
                   ELSE IF d \in OthersInside(c, h)
                   THEN [calls[d] EXCEPT !.overlapped = TRUE]
                   ELSE calls[d]]
    /\ UNCHANGED <<fetcherVars, extVars, backoffVars, rate_limiter, clock, limiter_log>>

\* now.duration_since(last_time), which saturates at zero
DurationSince(now, last_time) == Max(now - last_time, 0)

\* a wait that ends one tick early
WaitTime_Short(min_delay, elapsed) == Max(min_delay - elapsed - 1, 0)

\* wait_if_needed: let wait_time = self.min_delay - elapsed
WaitTime(min_delay, elapsed) == min_delay - elapsed

\* a limit that also refuses a wait of exactly five seconds
TooLong_Inclusive(wait_time) == wait_time >= RateLimitMaxWait

\* wait_if_needed: if wait_time > Duration::from_secs(5)
TooLong(wait_time) == wait_time > RateLimitMaxWait

\* the observation of a call that returns now with `ret`
Returned(call, ret) ==
    [call EXCEPT !.pc = "idle", !.ret = ret, !.returned_at = clock]

\* wait_if_needed: under the read lock, times.get(domain) and the decision:
\* return RateLimited, start sleep(wait_time), or go on to the update
RlCheck(c) ==
    /\ calls[c].pc = "check"
    /\ LET last_time == rate_limiter.last_request_times[calls[c].domain]
           elapsed == IF last_time = None THEN 0
                      ELSE DurationSince(calls[c].now, last_time[1])
           wait_time == WaitTime(rate_limiter.min_delay, elapsed)
       IN calls' = [calls EXCEPT ![c] =
            IF last_time # None /\ elapsed < rate_limiter.min_delay
            THEN IF TooLong(wait_time)
                 THEN Returned(@, "RateLimited")
                 ELSE [@ EXCEPT !.pc = "sleep", !.wait_time = wait_time,
                                !.wake = clock + wait_time, !.slept = TRUE]
            ELSE [@ EXCEPT !.pc = "record"]]
    /\ UNCHANGED <<fetcherVars, extVars, backoffVars, rate_limiter, clock, n_calls,
                   limiter_log>>

\* wait_if_needed: sleep(wait_time).await is over, not before the deadline
RlWake(c) ==
    /\ calls[c].pc = "sleep"
    /\ clock >= calls[c].wake
    /\ calls' = [calls EXCEPT ![c].pc = "record"]
    /\ UNCHANGED <<fetcherVars, extVars, backoffVars, rate_limiter, clock, n_calls,
                   limiter_log>>

\* wait_if_needed: under the write lock, times.insert(domain, Instant::now());
\* Ok(())
RlRecord(c) ==
    /\ calls[c].pc = "record"
    /\ rate_limiter' = [rate_limiter EXCEPT
                          !.last_request_times[calls[c].domain] = Some(clock)]
    /\ calls' = [calls EXCEPT ![c] = Returned(@, "Ok")]
    /\ limiter_log' = [limiter_log EXCEPT ![calls[c].domain] =
                         [returned_ok |-> @.returned_ok + 1,
                          first_entered |-> IF @.returned_ok = 0
                                            THEN calls[c].now
                                            ELSE @.first_entered,
                          last_returned |-> clock,
                          sequential |-> @.sequential /\ ~calls[c].overlapped]]
    /\ UNCHANGED <<fetcherVars, extVars, backoffVars, clock, n_calls>>

\* time passes, as long as a call is in progress or still to come
Tick ==
    /\ clock < MaxClock
    /\ n_calls < MaxCalls \/ \E c \in Callers : calls[c].pc # "idle"
    /\ clock' = clock + 1
    /\ UNCHANGED <<fetcherVars, extVars, backoffVars, rate_limiter, calls, n_calls,
                   limiter_log>>

\* RateLimiter::wait_if_needed, called by c
WaitIfNeeded(c) ==
    \/ \E h \in Hosts : RlEnter(c, h)
    \/ RlCheck(c)
    \/ RlWake(c)
    \/ RlRecord(c)

(* --------------------------- backoff arithmetic ------------------------ *)
Min(a, b) == IF a <= b THEN a ELSE b

\* the u32 of a small natural number
U32(n) == [hi |-> n \div U32Half, lo |-> n % U32Half]

\* u32 multiplication on the halves, for factors whose partial products
\* stay below 2^31 (powers of two): the wrapped product and whether it
\* overflowed 32 bits
U32Mul(a, b) ==
    LET ll == a.lo * b.lo
        mid == a.hi * b.lo + a.lo * b.hi + (ll \div U32Half)
    IN [v |-> [hi |-> mid % U32Half, lo |-> ll % U32Half],
        overflow |-> (a.hi * b.hi > 0) \/ (mid >= U32Half)]

\* u32::pow, the loop of exponentiation by squaring:
\*   while exp > 1 { if exp & 1 == 1 { acc = acc * base }
\*                   exp /= 2; base = base * base }   acc * base
RECURSIVE U32PowLoop(_, _, _, _)
U32PowLoop(base, acc, exp, overflow) ==
    IF exp > 1
    THEN LET a1 == IF exp % 2 = 1 THEN U32Mul(acc, base)
                   ELSE [v |-> acc, overflow |-> FALSE]
             b2 == U32Mul(base, base)
         IN U32PowLoop(b2.v, a1.v, exp \div 2,
                       overflow \/ a1.overflow \/ b2.overflow)
    ELSE LET r == U32Mul(acc, base)
         IN [v |-> r.v, overflow |-> overflow \/ r.overflow]

\* 2_u32.pow(exp): the wrapped power and whether a multiplication overflowed
U32Pow2(exp) ==
    IF exp = 0 THEN [v |-> U32(1), overflow |-> FALSE]
    ELSE U32PowLoop(U32(2), U32(1), exp, FALSE)

\* std::cmp::min(delay * m, cap) for a Duration delay, a u32 m and a Duration
\* cap below 2^16 units: the product is exact (a Duration holds 64-bit
\* seconds), and with m >= 2^16 and delay >= 1 it is above the cap
MinDurationTimes(delay, m, cap) ==
    IF m.hi = 0 THEN Min(delay * m.lo, cap)
    ELSE IF delay = 0 THEN 0
    ELSE cap

\* calculate_exponential_backoff: the outcomes the builds can produce, Some
\* delay or None for a panic: an overflowing pow panics where overflow checks
\* are on (debug builds) and wraps where they are off (release builds)
CalculateExponentialBackoff(attempt, base_retry_delay, max_retry_delay) ==
    LET p == U32Pow2(attempt) IN
    {Some(MinDurationTimes(base_retry_delay, p.v, max_retry_delay))}
      \cup (IF p.overflow THEN {None} ELSE {})

\* one call of calculate_exponential_backoff on the inputs under observation
CalculateBackoff ==
    /\ ~backoff.called
    /\ \E d \in CalculateExponentialBackoff(backoff.attempt,
                                              backoff.base_retry_delay,
                                              backoff.max_retry_delay) :
          backoff' = [backoff EXCEPT !.called = TRUE, !.delay = d]
    /\ UNCHANGED <<fetcherVars, limiterVars, extVars>>

(* ------------------------------ the store ------------------------------ *)
\* a check that lets an empty link through
ValidLink_NonAbsent(link) == link # None

\* save_parsed_feed_to_database: Some(link) if !link.is_empty()
ValidLink(link) == link # None /\ link[1] # ""

\* save_parsed_feed_to_database: the index of the first entry from i on that
\* is not skipped for its link, Len + 1 if there is none
NextValid(doc, i) ==
    LET rest == {j \in i..Len(doc) : ValidLink(doc[j])} IN
    IF rest = {} THEN Len(doc) + 1
    ELSE CHOOSE j \in rest : \A k \in rest : j <= k

\* Feed::find().filter(Url.eq(url)).one(db)
FindFeedByUrl(st, url) ==
    IF \E f \in DOMAIN st.feeds : st.feeds[f].url = url
    THEN Some(CHOOSE f \in DOMAIN st.feeds : st.feeds[f].url = url)
    ELSE None

\* feed_entry::Entity::find().filter(FeedId.eq(feed.id)).filter(Link.eq(link))
\* .one(db) returned a row
ExistingEntry(st, feed_id, link) ==
    \E i \in 1..Len(st.feed_entries) :
        st.feed_entries[i] = [feed_id |-> feed_id, link |-> link]

\* the links stored under a feed
LinksOf(st, feed_id) ==
    {st.feed_entries[i].link :
        i \in {j \in 1..Len(st.feed_entries) :
                 st.feed_entries[j].feed_id = feed_id}}

\* a table without the unique index
UniqueLinkViolated_NoIndex(st, link) == FALSE

\* idx_feed_entries_link_unique: an insert fails when a row of any feed
\* holds the link
UniqueLinkViolated(st, link) ==
    \E i \in 1..Len(st.feed_entries) : st.feed_entries[i].link = link

\* the handlers inside save_parsed_feed_to_database for the feed f, other
\* than h
OthersSaving(h, f) ==
    {d \in HandlerIds \ {h} :
        handlers[d].pc \in {"save", "insert"} /\ handlers[d].feed = Some(f)}

\* a spawned task calls handle_fetch_result_with_db with the result of its
\* fetch: an error, or the document fetched
HandleFetchResult(h, url, result, doc) ==
    /\ handlers[h].pc = "idle"
    /\ handlers' = [handlers EXCEPT ![h] =
         [IdleHandler EXCEPT
            !.pc = "lookup",
            !.fetch_result = [url |-> url, result |-> result,
                              retry_count |-> 0],
            !.parsed_feed = IF result = "Ok" THEN doc ELSE <<>>]]
    /\ UNCHANGED <<fetcherVars, backoffVars, limiterVars, store, request,
                   command>>

\* a handler that records a failure for a URL without a feed row
HandleLookup_RecordsMissing(h, db_ok) ==
    /\ handlers[h].pc = "lookup"
    /\ FindFeedByUrl(store, handlers[h].fetch_result.url) = None
    /\ handlers' = [handlers EXCEPT ![h].pc = "dropped"]
    /\ refresh_progress' =
         CompleteInternal(refresh_progress,
           [feed_url |-> handlers[h].fetch_result.url, status |-> "failed",
            entries_added |-> 0],
           Some([feed_url |-> handlers[h].fetch_result.url,
                 error_type |-> "database", retry_count |-> 0]))
    /\ UNCHANGED <<ctlVars, lockVars, backoffVars, limiterVars, is_running, schedVars,
                   permits, workers, result_channel, last_refresh_summary,
                   n_refresh_ops, n_public, history, store, request, command>>

\* handle_fetch_result_with_db: the feed lookup, which fails or answers; the
\* result is dropped unless a feed row is found; a fetched document is then
\* saved, an error recorded
HandleLookup(h, db_ok) ==
    /\ handlers[h].pc = "lookup"
    /\ LET feed_opt == IF db_ok
                       THEN FindFeedByUrl(store, handlers[h].fetch_result.url)
                       ELSE None
       IN handlers' =
            IF feed_opt = None
            THEN [handlers EXCEPT ![h].pc = "dropped"]
            ELSE IF handlers[h].fetch_result.result # "Ok"
            THEN [handlers EXCEPT ![h].pc = "complete", ![h].feed = feed_opt]
            ELSE [d \in HandlerIds |->
                    IF d = h
                    THEN [handlers[h] EXCEPT
                            !.pc = "save", !.feed = feed_opt,
                            !.stored_before = LinksOf(store, feed_opt[1]),
                            !.overlapped = OthersSaving(h, feed_opt[1]) # {}]
                    ELSE IF d \in OthersSaving(h, feed_opt[1])
                    THEN [handlers[d] EXCEPT !.overlapped = TRUE]
                    ELSE handlers[d]]
    /\ UNCHANGED <<fetcherVars, backoffVars, limiterVars, store, request,
                   command>>

\* save_parsed_feed_to_database: the entries without a valid link are
\* skipped; after the last entry the save returns Ok(entries_added);
\* otherwise the SELECT for the entry's link, which skips the entry when a
\* row exists
SaveSelect(h) ==
    /\ handlers[h].pc = "save"
    /\ LET hd == handlers[h]
           i == NextValid(hd.parsed_feed, hd.index)
       IN handlers' = [handlers EXCEPT ![h] =
            IF i > Len(hd.parsed_feed)
            THEN [hd EXCEPT !.index = i, !.save = "Ok", !.pc = "update_feed"]
            ELSE IF ExistingEntry(store, hd.feed[1], hd.parsed_feed[i][1])
            THEN [hd EXCEPT !.index = i + 1]
            ELSE [hd EXCEPT !.index = i, !.pc = "insert"]]
    /\ UNCHANGED <<fetcherVars, backoffVars, limiterVars, store, request,
                   command>>

\* save_parsed_feed_to_database: the INSERT for the entry, which adds the row
\* and counts it, or fails on the unique index, which ends the save with Err
SaveInsert(h) ==
    /\ handlers[h].pc = "insert"
    /\ LET hd == handlers[h]
           link == hd.parsed_feed[hd.index][1]
       IN IF UniqueLinkViolated(store, link)
          THEN /\ handlers' = [handlers EXCEPT ![h].save = "Err",
                                               ![h].pc = "complete"]
               /\ store' = store
          ELSE /\ store' = [store EXCEPT !.feed_entries =
                              Append(@, [feed_id |-> hd.feed[1],
                                         link |-> link])]
               /\ handlers' = [handlers EXCEPT ![h] =
                    [hd EXCEPT !.entries_added = @ + 1,
                               !.inserted = Append(@, link),
                               !.index = @ + 1, !.pc = "save"]]
    /\ UNCHANGED <<fetcherVars, backoffVars, limiterVars, request, command>>

\* a handler that writes last_fetched_at whatever the save returned
HandleUpdateFeed_Always(h) ==
    /\ handlers[h].pc \in {"update_feed", "complete"}
    /\ ~handlers[h].updated
    /\ handlers[h].fetch_result.result = "Ok"
    /\ store' = [store EXCEPT !.feeds[handlers[h].feed[1]].last_fetched_at =
                   IF @ = None THEN Some(1) ELSE Some(@[1] + 1)]
    /\ handlers' = [handlers EXCEPT ![h].updated = TRUE,
                                    ![h].pc = "complete"]
    /\ UNCHANGED <<fetcherVars, backoffVars, limiterVars, request, command>>

\* handle_fetch_result_with_db, after Ok(entries_added): updated_feed
\* .last_fetched_at = Set(Some(now)); updated_feed.update(db) (the k-th
\* update of a feed writes the time k)
HandleUpdateFeed(h) ==
    /\ handlers[h].pc = "update_feed"
    /\ store' = [store EXCEPT !.feeds[handlers[h].feed[1]].last_fetched_at =
                   IF @ = None THEN Some(1) ELSE Some(@[1] + 1)]
    /\ handlers' = [handlers EXCEPT ![h].updated = TRUE,
                                    ![h].pc = "complete"]
    /\ UNCHANGED <<fetcherVars, backoffVars, limiterVars, request, command>>

\* handle_fetch_result_with_db: the value save_parsed_feed_to_database
\* returned to it, Err (None) or Ok(entries_added)
SaveResult(hd) ==
    IF hd.save = "Err" THEN None ELSE Some(hd.entries_added)

\* handle_fetch_result_with_db: complete_feed_refresh_internal with the
\* status of the feed, which ends the handler
HandleComplete(h) ==
    /\ handlers[h].pc = "complete"
    /\ LET hd == handlers[h]
           p1 == InternalCompletion(refresh_progress, hd.fetch_result,
                                    "found", SaveResult(hd))
       IN /\ refresh_progress' =
               HandleFetchResultWithDb(refresh_progress, hd.fetch_result,
                                       "found", SaveResult(hd))
          /\ history' = Emitted(history, p1[1])
    /\ handlers' = [handlers EXCEPT ![h].pc = "done"]
    /\ UNCHANGED <<ctlVars, lockVars, backoffVars, limiterVars, is_running, schedVars,
                   permits, workers, result_channel, last_refresh_summary,
                   n_refresh_ops, n_public, store, request, command>>

\* AsyncFeedFetcher::handle_fetch_result_with_db, called by h
HandleFetchResultSteps(h) ==
    \/ \E db_ok \in BOOLEAN : HandleLookup(h, db_ok)
    \/ SaveSelect(h)
    \/ SaveInsert(h)
    \/ HandleUpdateFeed(h)
    \/ HandleComplete(h)

(* ------------------------------ commands ------------------------------- *)
\* the error of a command when AppState.async_fetcher is None
NotAvailable == "Async feed fetcher not available"

Ok(value) == [ok |-> TRUE, value |-> value]
Err(message) == [ok |-> FALSE, value |-> message]

\* queue_feed_for_async_fetch, fetch_multiple_feeds_async: match
\* priority.as_deref()
PriorityArgs == {"low", "normal", "high", "critical", "other", Unset}
ParsePriority(priority) ==
    CASE priority = "low" -> Low
      [] priority = "normal" -> Normal
      [] priority = "high" -> High
      [] priority = "critical" -> Critical
      [] OTHER -> Normal

\* the command `name` returns `ret`
Invoke(name, ret) ==
    /\ command.n_invoked < MaxCommands
    /\ command' = [command EXCEPT !.n_invoked = @ + 1, !.name = name,
                                  !.ret = ret]

\* what a command leaves alone whatever it does to the fetcher
CommandFrame ==
    UNCHANGED <<ctlVars, lockVars, backoffVars, limiterVars, store, handlers, request,
                receiver_open, dispatcher, received, task_queue,
                priority_task, permits, workers, n_public>>

\* fetcher.queue_feed, called k times in a row with one priority: the tasks
\* sent (every send fails once the receiver is dropped)
QueueFeeds(k, priority) ==
    /\ n_queued + k <= MaxTasks
    /\ n_queued' = n_queued + k
    /\ task_channel' =
         IF receiver_open
         THEN task_channel \o [i \in 1..k |->
                                 [url |-> n_queued + i, priority |-> priority,
                                  retry_count |-> 0]]
         ELSE task_channel

\* start_async_fetcher
StartAsyncFetcher ==
    /\ IF command.async_fetcher
       THEN /\ Invoke("start_async_fetcher", Ok("started"))
            /\ is_running' = TRUE
            /\ history' = [history EXCEPT !.ever_started = TRUE,
                                          !.stopped = FALSE]
       ELSE /\ Invoke("start_async_fetcher", Err(NotAvailable))
            /\ UNCHANGED <<is_running, history>>
    /\ UNCHANGED <<task_channel, n_queued, result_channel, refresh_progress,
                   last_refresh_summary, n_refresh_ops>>
    /\ CommandFrame

\* stop_async_fetcher
StopAsyncFetcher ==
    /\ IF command.async_fetcher
       THEN /\ Invoke("stop_async_fetcher", Ok("stopped"))
            /\ is_running' = FALSE
            /\ history' = [history EXCEPT !.stopped = TRUE]
       ELSE /\ Invoke("stop_async_fetcher", Err(NotAvailable))
            /\ UNCHANGED <<is_running, history>>
    /\ UNCHANGED <<task_channel, n_queued, result_channel, refresh_progress,
                   last_refresh_summary, n_refresh_ops>>
    /\ CommandFrame

\* get_async_fetcher_status
GetAsyncFetcherStatus ==
    /\ Invoke("get_async_fetcher_status",
              IF command.async_fetcher THEN Ok(is_running)
              ELSE Err(NotAvailable))
    /\ UNCHANGED <<is_running, history, task_channel, n_queued,
                   result_channel, refresh_progress, last_refresh_summary,
                   n_refresh_ops>>
    /\ CommandFrame

\* queue_feed_for_async_fetch(url, priority)
QueueFeedForAsyncFetch(priority) ==
    /\ IF command.async_fetcher
       THEN /\ QueueFeeds(1, ParsePriority(priority))
            /\ Invoke("queue_feed_for_async_fetch",
                      IF receiver_open THEN Ok("queued")
                      ELSE Err("Failed to queue feed"))
       ELSE /\ Invoke("queue_feed_for_async_fetch", Err(NotAvailable))
            /\ UNCHANGED <<task_channel, n_queued>>
    /\ UNCHANGED <<is_running, history, result_channel, refresh_progress,
                   last_refresh_summary, n_refresh_ops>>
    /\ CommandFrame

\* get_async_fetch_results
GetAsyncFetchResults ==
    /\ IF command.async_fetcher
       THEN /\ Invoke("get_async_fetch_results", Ok(result_channel))
            /\ result_channel' = <<>>
       ELSE /\ Invoke("get_async_fetch_results", Err(NotAvailable))
            /\ UNCHANGED result_channel
    /\ UNCHANGED <<is_running, history, task_channel, n_queued,
                   refresh_progress, last_refresh_summary, n_refresh_ops>>
    /\ CommandFrame

\* fetch_multiple_feeds_async(urls, priority), for k URLs
FetchMultipleFeedsAsync(k, priority) ==
    /\ IF command.async_fetcher
       THEN /\ QueueFeeds(k, ParsePriority(priority))
            /\ Invoke("fetch_multiple_feeds_async",
                      Ok(IF receiver_open THEN k ELSE 0))
       ELSE /\ Invoke("fetch_multiple_feeds_async", Err(NotAvailable))
            /\ UNCHANGED <<task_channel, n_queued>>
    /\ UNCHANGED <<is_running, history, result_channel, refresh_progress,
                   last_refresh_summary, n_refresh_ops>>
    /\ CommandFrame

\* refresh_all_feeds / refresh_single_feed, fetcher present:
\* start_refresh_operation(total_feeds), start() unless running, queue_feed
\* for each of the k feeds
StartRefresh(total_feeds, k, priority) ==
    /\ n_refresh_ops' = n_refresh_ops + 1
    /\ refresh_progress' =
         [is_active |-> TRUE, total_feeds |-> total_feeds,
          completed_feeds |-> 0, failed_feeds |-> 0,
          current_feed_url |-> None, start_time |-> Some("now"),
          errors |-> <<>>, feed_statuses |-> <<>>, last_summary |-> None]
    /\ is_running' = TRUE
    /\ history' = [history EXCEPT
                     !.emitted = <<>>,
                     !.requested_total = Some(total_feeds),
                     !.queued_before = n_queued,
                     !.ever_started = IF is_running THEN @ ELSE TRUE,
                     !.stopped = IF is_running THEN @ ELSE FALSE]
    /\ QueueFeeds(k, priority)

\* refresh_all_feeds: Feed::find().all(db) fails or answers; no feed is
\* reported before state.async_fetcher is looked at
RefreshAllFeeds(db_ok) ==
    LET feeds == DOMAIN store.feeds
        total_feeds == Cardinality(feeds)
    IN
    /\ IF ~db_ok
       THEN /\ Invoke("refresh_all_feeds", Err("Failed to fetch feeds"))
            /\ UNCHANGED <<is_running, history, task_channel, n_queued,
                           refresh_progress, n_refresh_ops>>
       ELSE IF feeds = {}
       THEN /\ Invoke("refresh_all_feeds",
                      Ok([success |-> FALSE,
                          message |-> "No feeds found to refresh",
                          total_feeds |-> 0]))
            /\ UNCHANGED <<is_running, history, task_channel, n_queued,
                           refresh_progress, n_refresh_ops>>
       ELSE IF command.async_fetcher
       THEN /\ StartRefresh(total_feeds, total_feeds, High)
            /\ Invoke("refresh_all_feeds",
                      Ok([success |-> TRUE, message |-> "Started refreshing",
                          total_feeds |-> IF receiver_open THEN total_feeds
                                          ELSE 0]))
       ELSE /\ Invoke("refresh_all_feeds", Err(NotAvailable))
            /\ UNCHANGED <<is_running, history, task_channel, n_queued,
                           refresh_progress, n_refresh_ops>>
    /\ UNCHANGED <<result_channel, last_refresh_summary>>
    /\ CommandFrame

\* refresh_single_feed(feed_id): Feed::find_by_id(feed_id).one(db) fails or
\* answers; a missing feed is reported before state.async_fetcher is looked at
RefreshSingleFeed(feed_id, db_ok) ==
    /\ IF ~db_ok
       THEN /\ Invoke("refresh_single_feed", Err("Failed to fetch feed"))
            /\ UNCHANGED <<is_running, history, task_channel, n_queued,
                           refresh_progress, n_refresh_ops>>
       ELSE IF feed_id \notin DOMAIN store.feeds
       THEN /\ Invoke("refresh_single_feed", Err("Feed not found"))
            /\ UNCHANGED <<is_running, history, task_channel, n_queued,
                           refresh_progress, n_refresh_ops>>
       ELSE IF command.async_fetcher
       THEN /\ StartRefresh(1, 1, Critical)
            /\ Invoke("refresh_single_feed",
                      IF receiver_open
                      THEN Ok([success |-> TRUE,
                               message |-> "Started refreshing feed",
                               total_feeds |-> 1])
                      ELSE Err("Failed to queue feed"))
       ELSE /\ Invoke("refresh_single_feed", Err(NotAvailable))
            /\ UNCHANGED <<is_running, history, task_channel, n_queued,
                           refresh_progress, n_refresh_ops>>
    /\ UNCHANGED <<result_channel, last_refresh_summary>>
    /\ CommandFrame

\* the command get_refresh_progress
GetRefreshProgressCommand ==
    /\ Invoke("get_refresh_progress",
              IF command.async_fetcher THEN Ok(GetRefreshProgress)
              ELSE Err(NotAvailable))
    /\ UNCHANGED <<is_running, history, task_channel, n_queued,
                   result_channel, refresh_progress, last_refresh_summary,
                   n_refresh_ops>>
    /\ CommandFrame

\* the command get_last_refresh_summary
GetLastRefreshSummaryCommand ==
    /\ IF command.async_fetcher
       THEN /\ Invoke("get_last_refresh_summary",
                      Ok(LastRefreshSummaryResult))
            /\ last_refresh_summary' = LastRefreshSummaryResult
       ELSE /\ Invoke("get_last_refresh_summary", Err(NotAvailable))
            /\ UNCHANGED last_refresh_summary
    /\ UNCHANGED <<is_running, history, task_channel, n_queued,
                   result_channel, refresh_progress, n_refresh_ops>>
    /\ CommandFrame

\* the async commands of feed_commands.rs
AsyncCommand ==
    \/ StartAsyncFetcher
    \/ StopAsyncFetcher
    \/ GetAsyncFetcherStatus
    \/ \E p \in PriorityArgs : QueueFeedForAsyncFetch(p)
    \/ GetAsyncFetchResults
    \/ \E k \in 0..MaxTasks, p \in PriorityArgs : FetchMultipleFeedsAsync(k, p)
    \/ \E db_ok \in BOOLEAN : RefreshAllFeeds(db_ok)
    \/ \E feed_id \in Urls, db_ok \in BOOLEAN : RefreshSingleFeed(feed_id, db_ok)
    \/ GetRefreshProgressCommand
    \/ GetLastRefreshSummaryCommand

\* delete_feed(id) for a stored feed: the row is deleted, and with it (ON
\* DELETE CASCADE) the entries of the feed (for an unknown id the command
\* returns "Feed not found" and changes nothing)
DeleteFeed(id) ==
    /\ id \in DOMAIN store.feeds
    /\ store' =
         [feeds |-> [f \in DOMAIN store.feeds \ {id} |-> store.feeds[f]],
          feed_entries |->
              SelectSeq(store.feed_entries, LAMBDA e : e.feed_id # id)]
    /\ UNCHANGED <<fetcherVars, backoffVars, limiterVars, handlers, request,
                   command>>

\* handle_fetch_result_with_db: what the feed lookup of the spawned task w
\* yields in the store as it is
StoreLookup(w) ==
    IF FindFeedByUrl(store, workers[w].task.url) = None THEN "missing"
    ELSE "found"

\* a step of the spawned fetch task u, if it is in flight, where the rate
\* limiter admits, every attempt ends, and the feed lookup reads the store
RefreshWorker(u) ==
    /\ u \in DOMAIN workers
    /\ \/ WorkerUpdateProgress(u)
       \/ WorkerRateLimit(u, "Ok")
       \/ \E o \in {"Ok", "NetworkError"} : WorkerFetchSingle(u, o)
       \/ WorkerBackoff(u)
       \/ \E s \in SaveOutcomes : WorkerFinish(u, StoreLookup(u), s)

(* ----------------------------- fetch_single ---------------------------- *)
\* what the server does with one GET: when the response (status line and
\* headers) arrives and when the body is complete, None for never; whether
\* the transport fails instead of delivering the one or the other; the
\* status; what the body holds
Servers ==
    [headers_at : {None} \cup {Some(n) : n \in 0..MaxElapsed},
     body_at : {None} \cup {Some(n) : n \in 0..MaxElapsed},
     transport_error : {"none", "get", "text"},
     status : {"success", "error"},
     content : {"feed", "json", "invalid"}]

\* reqwest::get(url) has its response
ResponseReady(rq) ==
    rq.server.headers_at # None /\ rq.elapsed >= rq.server.headers_at[1]

\* response.text() has the whole body
BodyReady(rq) ==
    rq.server.body_at # None /\ rq.elapsed >= rq.server.body_at[1]

\* fetch_single is called: timeout(config.request_timeout, reqwest::get(url))
\* is awaited
FetchSingleCall(server) ==
    /\ request.pc = "idle"
    /\ request' = [request EXCEPT !.pc = "get", !.server = server,
                                  !.elapsed = 0]
    /\ UNCHANGED <<fetcherVars, backoffVars, limiterVars, store, handlers,
                   command>>

\* fetch_single: the timeout elapsed before reqwest::get resolved:
\* .map_err(|_| FeedFetchError::Timeout)?
FetchSingleTimeout ==
    /\ request.pc = "get"
    /\ ~ResponseReady(request)
    /\ request.elapsed >= request.request_timeout
    /\ request' = [request EXCEPT !.pc = "done", !.ret = "Timeout"]
    /\ UNCHANGED <<fetcherVars, backoffVars, limiterVars, store, handlers,
                   command>>

\* fetch_single: reqwest::get resolved in time: a transport error or a
\* status that is not a success is a NetworkError; otherwise
\* response.text() is awaited
FetchSingleResponse ==
    /\ request.pc = "get"
    /\ ResponseReady(request)
    /\ request' =
         IF request.server.transport_error = "get"
              \/ request.server.status # "success"
         THEN [request EXCEPT !.pc = "done", !.ret = "NetworkError"]
         ELSE [request EXCEPT !.pc = "text"]
    /\ UNCHANGED <<fetcherVars, backoffVars, limiterVars, store, handlers,
                   command>>

\* fetch_single: response.text() resolved, with an error (NetworkError) or
\* the content; JSON is refused, anything else goes to parse_feed_content
FetchSingleText ==
    /\ request.pc = "text"
    /\ BodyReady(request)
    /\ request' = [request EXCEPT
                     !.pc = "done",
                     !.ret = IF request.server.transport_error = "text"
                             THEN "NetworkError"
                             ELSE IF request.server.content = "feed" THEN "Ok"
                             ELSE "ParseError"]
    /\ UNCHANGED <<fetcherVars, backoffVars, limiterVars, store, handlers,
                   command>>

\* time passes while the attempt waits
FetchSingleTick ==
    /\ request.pc \in {"get", "text"}
    /\ request.elapsed < MaxElapsed
    /\ request' = [request EXCEPT !.elapsed = @ + 1]
    /\ UNCHANGED <<fetcherVars, backoffVars, limiterVars, store, handlers,
                   command>>

\* AsyncFeedFetcher::fetch_single
FetchSingle ==
    \/ \E server \in Servers : FetchSingleCall(server)
    \/ FetchSingleTimeout
    \/ FetchSingleResponse
    \/ FetchSingleText

(* ------------------------------- claims -------------------------------- *)
InFlight == Cardinality(DOMAIN workers)

\* C1: the number of fetch tasks in flight (spawned and not yet ended, in
\* whatever stage: rate-limit wait, attempt, backoff sleep, recording) never
\* exceeds max_concurrent_requests, and every one of them holds a permit
C1_InFlightBounded ==
    /\ InFlight <= config.max_concurrent_requests
    /\ permits = config.max_concurrent_requests - InFlight

\* C1: the dispatcher waits for a permit while max_concurrent_requests tasks
\* are in flight, one of them in a backoff sleep
C1_Witness ==
    /\ dispatcher = "acquire"
    /\ permits = 0
    /\ InFlight = config.max_concurrent_requests
    /\ \E w \in DOMAIN workers : workers[w].pc = "backoff"

\* C2: at every pop the task popped has a priority greater than or equal to
\* that of every task resident in the heap at that moment
C2_PopTakesHighest ==
    [][(dispatcher = "pop" /\ dispatcher' = "acquire")
        => \A t \in task_queue : priority_task'[1].priority >= t.priority]_vars

\* C2: a pop was made from a heap that also held a strictly lower priority
C2_Witness ==
    /\ dispatcher = "acquire"
    /\ \E t \in task_queue : t.priority < priority_task[1].priority

\* the priority scenario: one permit, the pool running, every task queued so
\* far was in the heap at the first pop, their priorities pairwise distinct
PriorityScenario ==
    /\ config.max_concurrent_requests = 1
    /\ is_running
    /\ dispatcher # "exited"
    /\ history.first_heap # None
    /\ Cardinality(history.first_heap[1]) = n_queued
    /\ n_queued >= 2
    /\ \A a, b \in history.first_heap[1] :
          a # b => a.priority # b.priority

\* the dispatcher awaits recv() on an empty channel and no fetch is in flight:
\* nothing happens any more unless a caller queues another task
AtRest ==
    /\ dispatcher = "recv"
    /\ task_channel = <<>>
    /\ workers = <<>>

PriorityOf(url) ==
    (CHOOSE t \in history.first_heap[1] : t.url = url).priority

\* C3: in the priority scenario all tasks are fetched, in strictly decreasing
\* priority order: once the system is at rest every task of the first heap
\* has been fetched and the fetch order is decreasing
C3_AllFetchedInPriorityOrder ==
    (PriorityScenario /\ AtRest) =>
        /\ Len(history.fetch_order) = n_queued
        /\ \A i, j \in 1..Len(history.fetch_order) :
              i < j => PriorityOf(history.fetch_order[i])
                         > PriorityOf(history.fetch_order[j])

\* number of feed statuses of the sequence that say "failed"
RECURSIVE FailedIn(_)
FailedIn(statuses) ==
    IF statuses = <<>> THEN 0
    ELSE (IF Head(statuses).status = "failed" THEN 1 ELSE 0)
           + FailedIn(Tail(statuses))

\* C4: after start_refresh_operation(N), N >= 1, and exactly N completions,
\* is_active is false and exactly one summary has been emitted, which is the
\* one stored, with total_processed = N, successful_count + failed_count = N,
\* failed_count the number of failed completions, errors of that length and
\* feeds_updated of length N
C4_ExactlyOneSummary ==
    LET p == refresh_progress IN
    (p.start_time # None /\ p.total_feeds >= 1
        /\ p.completed_feeds = p.total_feeds) =>
      /\ ~p.is_active
      /\ Len(history.emitted) = 1
      /\ LET s == history.emitted[1] IN
           /\ p.last_summary = Some(s) \/ last_refresh_summary = Some(s)
           /\ s.total_processed = p.total_feeds
           /\ s.successful_count + s.failed_count = p.total_feeds
           /\ s.failed_count = FailedIn(p.feed_statuses)
           /\ Len(s.errors) = s.failed_count
           /\ Len(s.feeds_updated) = p.total_feeds

\* C4: a refresh over two feeds has seen one success and one failure
C4_Witness ==
    /\ refresh_progress.start_time # None
    /\ refresh_progress.total_feeds = 2
    /\ refresh_progress.completed_feeds = 2
    /\ refresh_progress.failed_feeds = 1
    /\ Len(history.emitted) = 1

\* C5: completed_feeds <= total_feeds in every state (stated for the states
\* in which a refresh over at least one feed has been started)
C5_CompletedAtMostTotal ==
    (refresh_progress.start_time # None /\ refresh_progress.total_feeds >= 1)
      => refresh_progress.completed_feeds <= refresh_progress.total_feeds

\* C6: is_active implies completed_feeds < total_feeds, also right after
\* start_refresh_operation
C6_ActiveImpliesIncomplete ==
    refresh_progress.is_active =>
        refresh_progress.completed_feeds < refresh_progress.total_feeds

\* C7: at most one summary is emitted per refresh operation, and a stored
\* summary of the operation is the first one emitted (stated for the
\* operations over at least one feed)
C7_AtMostOneSummary ==
    refresh_progress.total_feeds >= 1 =>
      /\ Len(history.emitted) <= 1
      /\ (history.emitted # <<>> /\ refresh_progress.last_summary # None)
            => refresh_progress.last_summary = Some(history.emitted[1])

\* the failed fetch_single attempts that preceded the attempt that returned:
\* all of them when it returned Ok or was denied by the rate limiter, all but
\* the last when the last failed attempt returned its error
FailedBefore(k) ==
    IF k.result \in FetchSingleErrors THEN k.failures - 1 ELSE k.failures

\* C8: the retry_count of the FeedFetchResult a worker builds is the number
\* of failed attempts before the attempt that returned
C8_RetryCountIsFailedAttempts ==
    \A w \in DOMAIN workers :
        workers[w].pc = "finish" =>
            FetchResultOf(workers[w]).retry_count = FailedBefore(workers[w])

\* C9: fetch_with_retry makes at most max_retries + 1 attempts, a further
\* attempt only after a failed one, and after the first successful attempt
\* it has returned Ok with no further attempt and no further sleep
C9_AttemptsBounded ==
    \A w \in DOMAIN workers :
        LET k == workers[w] IN
        /\ k.attempts <= config.max_retries + 1
        /\ k.attempts <= k.failures + 1
        /\ k.attempts = k.failures + 1 =>
              /\ k.result = "Ok"
              /\ k.pc = "finish"
              /\ k.sleeps = k.failures

\* C9: a fetch returned Ok on its second attempt
C9_Witness ==
    \E w \in DOMAIN workers :
        /\ workers[w].pc = "finish"
        /\ workers[w].result = "Ok"
        /\ workers[w].attempts = 2
        /\ workers[w].failures = 1

\* C10: when all max_retries + 1 attempts have failed, fetch_with_retry has
\* returned the error of the last attempt after exactly max_retries backoff
\* sleeps, none of them after the last attempt
C10_ExhaustedReturnsLastError ==
    \A w \in DOMAIN workers :
        LET k == workers[w] IN
        k.failures = config.max_retries + 1 =>
            /\ k.pc = "finish"
            /\ k.attempts = config.max_retries + 1
            /\ k.result = k.last_outcome
            /\ k.result \in FetchSingleErrors
            /\ k.sleeps = config.max_retries

\* C10: max_retries = 2, three failed attempts, two backoff sleeps
C10_Witness ==
    \E w \in DOMAIN workers :
        /\ config.max_retries = 2
        /\ workers[w].pc = "finish"
        /\ workers[w].failures = 3
        /\ workers[w].sleeps = 2

\* C11: a fetch_with_retry that was denied by the rate limiter before its
\* attempt number a has returned RateLimited at once: it is at its end, the
\* fetch_single calls and the backoff sleeps it made are those of the a
\* earlier attempts only, and a is still the attempt it was denied at
C11_RateLimitedReturnsAtOnce ==
    \A w \in DOMAIN workers :
        LET k == workers[w] IN
        k.result = "RateLimited" =>
            /\ k.pc = "finish"
            /\ k.attempts = k.attempt
            /\ k.failures = k.attempt
            /\ k.sleeps = k.attempt
            /\ k.last_outcome # "Ok"

\* C11: a retry was denied by the rate limiter while retries remained
C11_Witness ==
    \E w \in DOMAIN workers :
        /\ workers[w].result = "RateLimited"
        /\ workers[w].attempt = 1
        /\ workers[w].attempt < config.max_retries

\* min(base * 2^a, cap) in exact arithmetic, by doubling below the cap
RECURSIVE ExactBackoff(_, _, _)
ExactBackoff(base, a, cap) ==
    IF a = 0 \/ base = 0 THEN Min(base, cap)
    ELSE IF base >= cap THEN cap
    ELSE ExactBackoff(2 * base, a - 1, cap)

\* C12: for every attempt index a, calculate_exponential_backoff returns
\* min(base_retry_delay * 2^a, max_retry_delay) computed in exact arithmetic,
\* with no overflow or wrap-around of 2^a (hence never above the cap,
\* non-decreasing in a, and the cap once base * 2^a has reached it)
C12_BackoffIsExactMinimum ==
    backoff.called =>
        backoff.delay = Some(ExactBackoff(backoff.base_retry_delay,
                                          backoff.attempt,
                                          backoff.max_retry_delay))

\* C13: with min_delay = D <= 5 s, of the calls for one host that do not
\* overlap: none is refused; a call made less than D after the recorded
\* timestamp returns Ok only once D has elapsed since that timestamp; a call
\* for a host with no timestamp, or made at least D after it, returns
\* without sleeping; and n consecutive calls take at least (n-1)*D
C13_SequentialCallsSpaced ==
    LET D == rate_limiter.min_delay IN
    D <= RateLimitMaxWait =>
      /\ \A c \in Callers :
            LET k == calls[c] IN
            (k.pc = "idle" /\ k.ret # Unset /\ ~k.overlapped) =>
              /\ k.ret = "Ok"
              /\ (k.prev # None /\ k.now < k.prev[1] + D)
                    => k.returned_at >= k.prev[1] + D
              /\ (k.prev = None \/ k.now >= k.prev[1] + D) => ~k.slept
      /\ \A h \in Hosts :
            LET log == limiter_log[h] IN
            (log.returned_ok >= 1 /\ log.sequential) =>
               log.last_returned - log.first_entered >= (log.returned_ok - 1) * D

\* C13: three calls in a row for one host with D = 2, the later ones made
\* at once, took four seconds
C13_Witness ==
    \E h \in Hosts :
        /\ rate_limiter.min_delay = 2
        /\ limiter_log[h].returned_ok = 3
        /\ limiter_log[h].sequential
        /\ limiter_log[h].last_returned = limiter_log[h].first_entered + 4

\* the residual wait of the call c at its check, None when the host has no
\* timestamp
Residual(c) ==
    LET last_time == rate_limiter.last_request_times[calls[c].domain] IN
    IF last_time = None THEN None
    ELSE Some(rate_limiter.min_delay
                - DurationSince(calls[c].now, last_time[1]))

\* C14: at the check of a call, a residual wait strictly above 5 s makes it
\* return RateLimited without sleeping, every timestamp unchanged; a
\* residual wait of 1 s to 5 s (5 s included) makes it sleep that long at
\* least; and a call that slept records the time of its return and returns Ok
C14_RefusesOnlyAboveFive ==
    [][\A c \in Callers :
         /\ (calls[c].pc = "check" /\ calls'[c].pc # "check"
                /\ Residual(c) # None) =>
               /\ Residual(c)[1] > RateLimitMaxWait =>
                     /\ calls'[c].pc = "idle"
                     /\ calls'[c].ret = "RateLimited"
                     /\ ~calls'[c].slept
                     /\ rate_limiter' = rate_limiter
               /\ (Residual(c)[1] >= 1 /\ Residual(c)[1] <= RateLimitMaxWait) =>
                     /\ calls'[c].pc = "sleep"
                     /\ calls'[c].wake = clock + Residual(c)[1]
         /\ (calls[c].pc = "sleep" /\ calls'[c].pc # "sleep") =>
               /\ clock >= calls[c].wake
               /\ calls'[c].pc = "record"
         /\ (calls[c].pc = "record" /\ calls'[c].pc # "record") =>
               /\ calls'[c].ret = "Ok"
               /\ rate_limiter'.last_request_times[calls[c].domain]
                     = Some(clock)
      ]_vars

\* C14: with min_delay = 6 one call was refused at a residual wait of 6 s
\* and another slept through a residual wait of exactly 5 s and returned Ok
C14_Witness ==
    /\ rate_limiter.min_delay = 6
    /\ \E c, d \in Callers :
          /\ calls[c].pc = "idle" /\ calls[c].ret = "RateLimited"
          /\ calls[c].prev # None /\ calls[c].now = calls[c].prev[1]
          /\ calls[d].pc = "idle" /\ calls[d].ret = "Ok"
          /\ calls[d].slept /\ calls[d].wait_time = RateLimitMaxWait

\* a step that is a call of queue_feed
QueueFeedCalled == n_queued' = n_queued + 1

\* the call of queue_feed of this step returned Ok: send succeeded, and the
\* task is the last one on the ingress channel
QueueFeedOk ==
    /\ receiver_open
    /\ Len(task_channel') = Len(task_channel) + 1
    /\ task_channel'[Len(task_channel')].url = n_queued + 1

\* C15: every queue_feed call made while is_running = true returns Ok and
\* places the task on the ingress channel, whatever calls came before
C15_QueueSucceedsWhileRunning ==
    [][(QueueFeedCalled /\ is_running) => QueueFeedOk]_vars

\* C16: every queue_feed call made after stop() has returned, and before
\* any later start(), returns an error and enqueues nothing (stated for a
\* fetcher that had been started)
C16_QueueFailsAfterStop ==
    [][(QueueFeedCalled /\ history.ever_started /\ history.stopped)
         => (~QueueFeedOk /\ task_channel' = task_channel)]_vars

\* C17: is_running is false for a new fetcher, true after start() and false
\* after stop(); and before the first start() no fetch has been spawned and
\* none is about to be, whatever was queued
C17_NoFetchBeforeStart ==
    /\ is_running = (history.ever_started /\ ~history.stopped)
    /\ ~history.ever_started =>
          /\ history.fetch_order = <<>>
          /\ workers = <<>>
          /\ priority_task = None
          /\ task_queue = {}

\* C17: two tasks were queued before any start(), and the dispatcher has
\* looked at the first of them
C17_Witness ==
    /\ ~history.ever_started
    /\ n_queued >= 2
    /\ dispatcher = "exited"
    /\ history.fetch_order = <<>>

\* the result of the fetch u is in the progress state or on the result
\* channel, where the next get_results returns it
ResultAvailable(u) ==
    \/ \E i \in 1..Len(result_channel) : result_channel[i].url = u
    \/ \E i \in 1..Len(refresh_progress.feed_statuses) :
          refresh_progress.feed_statuses[i].feed_url = u

C19_SummarySurvivesNextStart ==
    history.last_emitted # None =>
        LastRefreshSummaryResult = history.last_emitted

\* C20: a step of start_refresh_operation leaves is_active = true,
\* total_feeds the argument, the counters 0, current_feed_url None,
\* start_time set, errors and feed_statuses empty, all in one step, and
\* changes neither the ingress channel, the heap, the task in hand, the
\* permits, the fetches in flight nor the results
C20_StartResetsAtomically ==
    [][n_refresh_ops' = n_refresh_ops + 1 =>
         /\ history'.requested_total # None
         /\ refresh_progress' =
               [is_active |-> TRUE,
                total_feeds |-> history'.requested_total[1],
                completed_feeds |-> 0, failed_feeds |-> 0,
                current_feed_url |-> None, start_time |-> Some("now"),
                errors |-> <<>>, feed_statuses |-> <<>>,
                last_summary |-> refresh_progress'.last_summary]
         /\ UNCHANGED <<task_channel, received, task_queue, priority_task,
                        permits, workers, result_channel, is_running>>
      ]_vars

\* C20: a second refresh was started while a fetch was in flight and the
\* first refresh had ended with an error on record
C20_Witness ==
    /\ n_refresh_ops = 2
    /\ history.last_emitted # None
    /\ history.last_emitted[1].errors # <<>>
    /\ refresh_progress.is_active
    /\ refresh_progress.completed_feeds = 0
    /\ refresh_progress.errors = <<>>
    /\ refresh_progress.current_feed_url = None
    /\ workers # <<>>

\* the links a save alone inserts for a document, in order: the first
\* occurrence of each link that is present, not empty and not yet stored
\* under the feed
RECURSIVE ExpectedInserts(_, _)
ExpectedInserts(doc, stored) ==
    IF doc = <<>> THEN <<>>
    ELSE LET l == Head(doc) IN
         IF l # None /\ l # Some("") /\ l[1] \notin stored
         THEN <<l[1]>> \o ExpectedInserts(Tail(doc), stored \cup {l[1]})
         ELSE ExpectedInserts(Tail(doc), stored)

\* the step is the completion that ends the handler h
Completes(h) == handlers[h].pc = "complete" /\ handlers'[h].pc = "done"

\* the step appends exactly this status to feed_statuses
StatusAppended(status) ==
    refresh_progress'.feed_statuses =
        Append(refresh_progress.feed_statuses, status)

\* C21: a save that returned Ok returns the number of rows it inserted; run
\* with no other save for the same feed at the same time, it inserted, in
\* document order, one row for each distinct non-empty link of the document
\* that was not stored under the feed; when every such link was stored
\* already (the same document saved again) it inserted nothing; and the
\* handler then completes the feed with status "success" and that number
C21_SaveInsertsNewLinksOnce ==
    [][\A h \in HandlerIds :
         /\ handlers'[h].save = "Ok" =>
              LET hd == handlers'[h] IN
              /\ hd.entries_added = Len(hd.inserted)
              /\ ~hd.overlapped =>
                    hd.inserted =
                        ExpectedInserts(hd.parsed_feed, hd.stored_before)
              /\ ExpectedInserts(hd.parsed_feed, hd.stored_before) = <<>>
                    => hd.inserted = <<>>
         /\ (Completes(h) /\ handlers[h].save = "Ok") =>
              /\ StatusAppended([feed_url |-> handlers[h].fetch_result.url,
                                 status |-> "success",
                                 entries_added |-> handlers[h].entries_added])
              /\ refresh_progress'.errors = refresh_progress.errors
      ]_vars

\* C21: a document of two entries was saved twice for one feed, one save
\* after the other: the first inserted a row, the second none, and both
\* completions are "success"
C21_Witness ==
    \E h, g \in HandlerIds :
        /\ h # g
        /\ handlers[h].pc = "done" /\ handlers[g].pc = "done"
        /\ handlers[h].save = "Ok" /\ handlers[g].save = "Ok"
        /\ handlers[h].feed = handlers[g].feed
        /\ handlers[h].parsed_feed = handlers[g].parsed_feed
        /\ Len(handlers[h].parsed_feed) = MaxEntries
        /\ handlers[h].inserted # <<>>
        /\ ~handlers[g].overlapped /\ handlers[g].stored_before # {}
        /\ Len(refresh_progress.feed_statuses) = 2
        /\ refresh_progress.feed_statuses[1].status = "success"
        /\ refresh_progress.feed_statuses[2] =
             [feed_url |-> handlers[g].fetch_result.url,
              status |-> "success", entries_added |-> 0]

C23_FailedSaveIsFailedFeed ==
    [][/\ \A h \in HandlerIds :
            /\ handlers[h].save = "Err" =>
                 /\ handlers'[h].inserted = handlers[h].inserted
                 /\ handlers'[h].save = "Err"
                 /\ ~handlers'[h].updated
            /\ (Completes(h) /\ handlers[h].save = "Err") =>
                 /\ StatusAppended(
                      [feed_url |-> handlers[h].fetch_result.url,
                       status |-> "failed", entries_added |-> 0])
                 /\ refresh_progress'.errors =
                      Append(refresh_progress.errors,
                             [feed_url |-> handlers[h].fetch_result.url,
                              error_type |-> "database",
                              retry_count |->
                                  handlers[h].fetch_result.retry_count])
       /\ store'.feeds # store.feeds =>
            \E h \in HandlerIds :
                /\ handlers[h].save = "Ok"
                /\ ~handlers[h].updated /\ handlers'[h].updated
                /\ store'.feeds =
                     [store.feeds EXCEPT
                        ![handlers[h].feed[1]].last_fetched_at =
                            store'.feeds[handlers[h].feed[1]].last_fetched_at]
      ]_vars

\* C23: a save for the feed 1 inserted a row and then failed on a link that
\* is stored under the feed 2; the feed 1 was completed as failed with a
\* "database" error and was never marked as fetched
C23_Witness ==
    \E h \in HandlerIds :
        /\ handlers[h].pc = "done"
        /\ handlers[h].save = "Err"
        /\ handlers[h].feed = Some(1)
        /\ handlers[h].inserted # <<>>
        /\ ExistingEntry(store, 2,
                         handlers[h].parsed_feed[handlers[h].index][1])
        /\ store.feeds[1].last_fetched_at = None
        /\ store.feeds[2].last_fetched_at # None
        /\ \E i \in 1..Len(refresh_progress.errors) :
              refresh_progress.errors[i] =
                  [feed_url |-> 1, error_type |-> "database",
                   retry_count |-> 0]

\* C24: the completion of a fetch that ended in an error, for a feed of the
\* store, appends one RefreshError and one "failed" status with
\* entries_added = 0 and adds one to completed_feeds and to failed_feeds,
\* whatever was recorded before; and a handler completes once
C24_FailureRecordedOnce ==
    [][\A h \in HandlerIds :
         /\ (Completes(h) /\ handlers[h].fetch_result.result # "Ok") =>
              /\ StatusAppended(
                   [feed_url |-> handlers[h].fetch_result.url,
                    status |-> "failed", entries_added |-> 0])
              /\ refresh_progress'.errors =
                   Append(refresh_progress.errors,
                          [feed_url |-> handlers[h].fetch_result.url,
                           error_type |->
                               ErrorType(handlers[h].fetch_result.result),
                           retry_count |->
                               handlers[h].fetch_result.retry_count])
              /\ refresh_progress'.completed_feeds =
                   refresh_progress.completed_feeds + 1
              /\ refresh_progress'.failed_feeds =
                   refresh_progress.failed_feeds + 1
         /\ handlers[h].pc = "done" =>
              /\ handlers'[h].pc = "done"
              /\ (refresh_progress' # refresh_progress =>
                    \E g \in HandlerIds \ {h} : Completes(g)
                    \/ n_refresh_ops' # n_refresh_ops)
      ]_vars

\* C24: in a refresh of two feeds the fetch of the feed 1 failed and was
\* recorded, and the feed 2 was then recorded as a success
C24_Witness ==
    /\ refresh_progress.total_feeds = 2
    /\ refresh_progress.completed_feeds = 2
    /\ refresh_progress.failed_feeds = 1
    /\ Len(refresh_progress.errors) = 1
    /\ refresh_progress.errors[1].error_type = "timeout"
    /\ refresh_progress.feed_statuses =
         <<[feed_url |-> 1, status |-> "failed", entries_added |-> 0],
           [feed_url |-> 2, status |-> "success", entries_added |-> 1]>>

\* C25: a handler whose lookup finds no feed row, or fails, ends there: the
\* step changes neither the progress state, the summary nor the store, and
\* the handler has inserted nothing and takes no further step
C25_UnknownFeedIsDropped ==
    [][\A h \in HandlerIds :
         handlers'[h].pc = "dropped" =>
            /\ handlers[h].pc \in {"lookup", "dropped"}
            /\ handlers'[h].inserted = <<>>
            /\ ~handlers'[h].updated
            /\ handlers[h].pc = "dropped" => handlers'[h] = handlers[h]
            /\ handlers[h].pc = "lookup" =>
                 UNCHANGED <<refresh_progress, last_refresh_summary, store>>
      ]_vars

\* C25: during a refresh, a document with a valid link arrived for the URL
\* that has no feed row and another for a stored URL whose lookup failed;
\* both were dropped and the refresh is where it was
C25_Witness ==
    /\ refresh_progress.is_active
    /\ refresh_progress.completed_feeds = 0
    /\ refresh_progress.feed_statuses = <<>>
    /\ store.feed_entries = <<>>
    /\ \E h, g \in HandlerIds :
          /\ handlers[h].pc = "dropped" /\ handlers[g].pc = "dropped"
          /\ handlers[h].fetch_result.url = MaxFeeds + 1
          /\ handlers[g].fetch_result.url \in FeedIds
          /\ \E i \in 1..Len(handlers[h].parsed_feed) :
                ValidLink(handlers[h].parsed_feed[i])

\* C26: the progress_percentage get_refresh_progress returns lies in
\* [0, 100] in every reachable state
C26_PercentageWithinRange ==
    LET pct == GetRefreshProgress.progress_percentage IN
    /\ 0 <= pct.num
    /\ pct.num <= 100 * pct.den

\* the summaries held or built: the two summary slots and the summaries
\* built since the last start_refresh_operation
SummariesHeld ==
    {history.emitted[i] : i \in 1..Len(history.emitted)}
      \cup (IF refresh_progress.last_summary = None THEN {}
            ELSE {refresh_progress.last_summary[1]})
      \cup (IF last_refresh_summary = None THEN {}
            ELSE {last_refresh_summary[1]})

\* C27: failed_feeds <= completed_feeds in every reachable state, and no
\* summary holds a successful_count below zero (an underflow of
\* completed_feeds - failed_feeds)
C27_FailedAtMostCompleted ==
    /\ refresh_progress.failed_feeds <= refresh_progress.completed_feeds
    /\ \A sm \in SummariesHeld :
          /\ sm.successful_count >= 0
          /\ sm.successful_count + sm.failed_count
                = Len(sm.feeds_updated)

\* C27: a refresh of two feeds ended with one failure and one success, the
\* failure first, and its summary was built
C27_Witness ==
    /\ refresh_progress.total_feeds = 2
    /\ refresh_progress.completed_feeds = 2
    /\ refresh_progress.failed_feeds = 1
    /\ refresh_progress.feed_statuses[1].status = "failed"
    /\ refresh_progress.last_summary # None
    /\ refresh_progress.last_summary[1].successful_count = 1

\* the command returned the error `message`
ReturnedErr(message) == ~command.ret.ok /\ command.ret.value = message

\* the command's database query failed
QueryFailed ==
    ReturnedErr("Failed to fetch feeds") \/ ReturnedErr("Failed to fetch feed")

\* C28: when the application state holds no async fetcher, the command
\* last invoked returned the error "Async feed fetcher not available",
\* whatever the store held and whatever was passed (stated for the calls
\* whose database queries succeeded)
C28_NoFetcherNotAvailable ==
    (~command.async_fetcher /\ command.n_invoked > 0 /\ ~QueryFailed) =>
        ReturnedErr(NotAvailable)

\* C29: every fetch_single attempt terminates, whatever the server does,
\* stalling before the response or in the body included
C29_AttemptTerminates ==
    (request.pc \in {"get", "text"}) ~> (request.pc = "done")

\* the fetch of the task u has been spawned
Spawned(u) ==
    \E i \in 1..Len(history.fetch_order) : history.fetch_order[i] = u

\* the task u was accepted by queue_feed and is waiting: on the ingress
\* channel, in the dispatcher's hand or in its heap
Resident(u) ==
    \/ \E i \in 1..Len(task_channel) : task_channel[i].url = u
    \/ received # None /\ received[1].url = u
    \/ \E t \in task_queue : t.url = u
    \/ priority_task # None /\ priority_task[1].url = u

\* C30: every task that queue_feed accepted is eventually popped from the
\* heap and spawned as a fetch if the pool stays running from then on, also
\* when nothing is queued after it
C30_QueuedIsEventuallySpawned ==
    \A u \in 1..MaxTasks :
        []((Resident(u) /\ []is_running) => <>Spawned(u))

(* --------------------------- specifications ---------------------------- *)
\* refresh_all_feeds has just returned Ok after queueing at least one feed:
\* the tasks it sent are all in the ingress channel
RefreshAllStarted ==
    /\ command.name = "refresh_all_feeds"
    /\ command.ret.ok
    /\ command.ret.value.success
    /\ command.ret.value.total_feeds >= 1
    /\ Len(task_channel) = command.ret.value.total_feeds

\* the refresh is finalized: every feed counted, not active, a summary to read
Finalized ==
    /\ refresh_progress.completed_feeds = refresh_progress.total_feeds
    /\ ~refresh_progress.is_active
    /\ LastRefreshSummaryResult # None

\* C31: once refresh_all_feeds has started a refresh over N >= 1 stored feeds,
\* if the fetcher is not stopped, the dispatcher and the fetch tasks keep
\* being scheduled and every attempt ends, the refresh is eventually
\* finalized: completed_feeds reaches total_feeds, is_active is false and a
\* summary can be read; also when a feed row is deleted meanwhile.
C31_RefreshEventuallyFinalizes ==
    []((RefreshAllStarted /\ []is_running) => <>Finalized)

\* the copies of the task u the program holds: on the ingress channel, in
\* the dispatcher's hand, in its heap, popped, or in flight
Held(u) ==
    Cardinality({i \in 1..Len(task_channel) : task_channel[i].url = u})
      + (IF received # None /\ received[1].url = u THEN 1 ELSE 0)
      + Cardinality({t \in task_queue : t.url = u})
      + (IF priority_task # None /\ priority_task[1].url = u THEN 1 ELSE 0)
      + (IF u \in DOMAIN workers THEN 1 ELSE 0)

\* the FetchResults of the task u waiting on the result channel
Delivered(u) ==
    Cardinality({i \in 1..Len(result_channel) : result_channel[i].url = u})

\* C32: no accepted task is lost or duplicated, whatever the interleaving of
\* start() and stop(): a task that is pending or in flight is, after any
\* step, still pending or in flight or has produced its FetchResult, and
\* there is never more than one copy or result of a task
C32_NoTaskLostOrDuplicated ==
    [][\A u \in 1..MaxTasks :
          /\ Held(u)' + Delivered(u)' <= 1
          /\ (Held(u) = 1) => (Held(u)' + Delivered(u)' = 1)]_vars

\* C33: for every host, any two calls of wait_if_needed that return Ok,
\* overlapping or not, return at least min_delay apart: a call that returns
\* Ok does so no sooner than min_delay after the previous Ok return for the
\* host
C33_OverlappingCallsSpaced ==
    [][\A h \in Hosts :
          (/\ limiter_log[h].returned_ok >= 1
           /\ limiter_log'[h].returned_ok = limiter_log[h].returned_ok + 1)
            => limiter_log'[h].last_returned - limiter_log[h].last_returned
                 >= rate_limiter.min_delay]_vars

\* the spawned task u ends in this step
TaskEnds(u) == u \in DOMAIN workers /\ u \notin DOMAIN workers'

\* the counters and lists of the refresh, and what finalizing it changes
RefreshCounters(p) ==
    <<p.completed_feeds, p.failed_feeds, p.errors, p.feed_statuses,
      p.is_active, p.last_summary>>

\* C34: the counters of a refresh count only its own feeds: when a task ends
\* that was queued before the latest start_refresh_operation (a straggler of
\* an earlier refresh, or a task queued ad hoc before the refresh),
\* completed_feeds, failed_feeds, errors and feed_statuses of the current
\* refresh do not change and the refresh is not finalized
C34_CountsOnlyOwnFeeds ==
    [][\A u \in 1..MaxTasks :
          (TaskEnds(u) /\ n_refresh_ops >= 1 /\ u <= history.queued_before)
            => RefreshCounters(refresh_progress')
                 = RefreshCounters(refresh_progress)]_vars

\* the summaries stored: in the progress state and in the persistent slot
SummariesStored ==
    (IF refresh_progress.last_summary = None THEN {}
     ELSE {refresh_progress.last_summary[1]})
      \cup (IF last_refresh_summary = None THEN {}
            ELSE {last_refresh_summary[1]})

\* C35: every RefreshSummary stored, in the progress state or in the
\* persistent slot, is internally consistent: successful_count +
\* failed_count = total_processed, feeds_updated has total_processed
\* elements and errors has failed_count elements
C35_SummaryConsistent ==
    \A sm \in SummariesStored :
        /\ sm.successful_count + sm.failed_count = sm.total_processed
        /\ Len(sm.feeds_updated) = sm.total_processed
        /\ Len(sm.errors) = sm.failed_count

\* the call of c is under way
LockBusy(c) == lock_calls[c].pc # "idle"

\* the call of c can take a step: it is under a lock, or its turn has come
LockCanStep(c) ==
    \/ lock_calls[c].pc \in {"in_progress", "in_summary", "in_summary_read"}
    \/ \E l \in Locks : CanAcquire(rwlocks, c, l)

\* C36: no interleaving of complete_feed_refresh, the workers' internal
\* completion, start_refresh_operation, abort_refresh, get_refresh_progress
\* and get_last_refresh_summary deadlocks: nobody asks for the progress lock
\* while holding the last-summary lock (the order is always progress first);
\* while a call is under way some call can take a step; and every call
\* eventually returns with all its locks released
C36_NoDeadlock ==
    /\ [](\A c \in LockCallers :
             Holds(c, "last_refresh_summary") => ~Waits(c, "refresh_progress"))
    /\ []((\E c \in LockCallers : LockBusy(c))
             => (\E c \in LockCallers : LockCanStep(c)))
    /\ \A c \in LockCallers :
          LockBusy(c) ~> (~LockBusy(c) /\ \A l \in Locks : ~Holds(c, l))

\* C36: a get_last_refresh_summary holds the read lock of the progress
\* state and awaits the write lock of the persistent slot, which another
\* get_last_refresh_summary, called before the summary was built, holds
\* for reading
C36_Witness ==
    \E c, d \in LockCallers :
        /\ lock_calls[c].op = "get_last_refresh_summary"
        /\ Holds(c, "refresh_progress")
        /\ Waits(c, "last_refresh_summary")
        /\ d # c
        /\ Holds(d, "last_refresh_summary")

\* C37: the entries_added recorded in a feed's FeedRefreshStatus equals the
\* number of feed_entries rows the save for that fetch inserted into the
\* store, for successful and for failed saves alike
C37_EntriesAddedIsRowsInserted ==
    [][\A h \in HandlerIds :
          Completes(h) =>
            LET statuses == refresh_progress'.feed_statuses IN
            /\ Len(statuses) = Len(refresh_progress.feed_statuses) + 1
            /\ statuses[Len(statuses)].entries_added
                 = Len(handlers[h].inserted)]_vars

\* C38: in every reachable state of the progress struct, errors has
\* failed_feeds elements and feed_statuses has completed_feeds elements,
\* whatever the interleaving of worker completions, complete_feed_refresh,
\* start_refresh_operation and abort_refresh
C38_ListsMatchCounters ==
    /\ Len(refresh_progress.errors) = refresh_progress.failed_feeds
    /\ Len(refresh_progress.feed_statuses) = refresh_progress.completed_feeds

\* C38: a refresh started after an earlier completion has counted two
\* feeds, one of them failed, with one completion made through
\* complete_feed_refresh, and is no longer active
C38_Witness ==
    /\ n_refresh_ops = 1
    /\ n_public = 1
    /\ refresh_progress.completed_feeds = 2
    /\ refresh_progress.failed_feeds = 1
    /\ refresh_progress.total_feeds = 2
    /\ ~refresh_progress.is_active
    /\ n_queued = 2
    /\ workers = <<>>

\* C39: get_refresh_progress never underflows in total_feeds -
\* completed_feeds: whenever is_active holds and completed_feeds > 0,
\* completed_feeds <= total_feeds; and the estimate is None whenever
\* is_active is false or completed_feeds is 0
C39_EstimateNeverUnderflows ==
    /\ (refresh_progress.is_active /\ refresh_progress.completed_feeds > 0)
          => /\ refresh_progress.completed_feeds
                   <= refresh_progress.total_feeds
             /\ RemainingFeeds(refresh_progress) # None
    /\ (~refresh_progress.is_active \/ refresh_progress.completed_feeds = 0)
          => GetRefreshProgress.estimated_time_remaining = None

\* C39: one of two feeds of an active refresh is complete and the estimate
\* is computed from one remaining feed
C39_Witness ==
    /\ refresh_progress.is_active
    /\ refresh_progress.completed_feeds = 1
    /\ refresh_progress.total_feeds = 2
    /\ GetRefreshProgress.estimated_time_remaining
          = Some([remaining_feeds |-> Some(1)])

\* C40: fetch_with_retry never returns TooManyRetries: for every max_retries
\* and every sequence of attempt outcomes, an Err it returns is RateLimited or
\* the error of its last fetch_single attempt, and no result sent and no
\* RefreshError recorded carries too_many_retries
C40_NeverTooManyRetries ==
    /\ \A w \in DOMAIN workers :
          LET k == workers[w] IN
          (k.pc = "finish" /\ k.result # "Ok") =>
              /\ k.result # "TooManyRetries"
              /\ \/ k.result = "RateLimited"
                 \/ /\ k.result \in FetchSingleErrors
                    /\ k.result = k.last_outcome
                    /\ k.attempt = config.max_retries
    /\ \A i \in DOMAIN result_channel :
          result_channel[i].result # "TooManyRetries"
    /\ \A i \in DOMAIN refresh_progress.errors :
          refresh_progress.errors[i].error_type # "too_many_retries"

\* C40: with max_retries = 0 the only attempt timed out and the error was
\* recorded as a timeout
C40_Witness ==
    /\ config.max_retries = 0
    /\ \E i \in DOMAIN refresh_progress.errors :
          /\ refresh_progress.errors[i].error_type = "timeout"
          /\ refresh_progress.errors[i].retry_count = 0

(* Spec: the scheduler. Callers start, stop and queue tasks of every       *)
(* priority; the fetches retry against a server that answers or fails and  *)
(* a rate limiter that admits or denies; results go to the result channel  *)
(* or, with a database bound, to the progress state.                       *)
Init ==
    InitWith([max_concurrent_requests : 1..MaxConcurrent,
              max_retries : 0..MaxRetries], {FALSE})

Next ==
    \/ Start
    \/ Stop
    \/ \E p \in FetchPriority : QueueFeed(p)
    \/ GetResults
    \/ Dispatcher
    \/ \E w \in DOMAIN workers :
          Worker(w, {"Ok"}, {"Ok", "NetworkError"}, {"found"}, {Some(0)})

Spec == Init /\ [][Next]_vars

(* SpecCoord: the refresh coordinator, database bound. Refreshes are       *)
(* started and aborted, feeds are queued at the priority refresh_all_feeds *)
(* uses, and completions come from the workers and from                    *)
(* complete_feed_refresh.                                                  *)
InitCoord ==
    InitWith([max_concurrent_requests : {1}, max_retries : {0}],
             {TRUE})

NextCoord ==
    \/ Start
    \/ (n_queued < MaxCoordTasks /\ QueueFeed(High))
    \/ Dispatcher
    \/ \E w \in DOMAIN workers :
          Worker(w, {"Ok"}, {"Ok", "NetworkError"}, Lookups, SaveOutcomes)
    \/ \E n \in 0..MaxTotalFeeds : StartRefreshOperation(n)
    \/ \E c \in PublicCompletions : CompleteFeedRefresh(c[1], c[2])
    \/ GetLastRefreshSummary
    \/ AbortRefresh

SpecCoord == InitCoord /\ [][NextCoord]_vars

(* SpecRetry: fetch_with_retry. One fetch at a time, every retry budget up *)
(* to MaxRetriesDeep, every outcome of the rate limiter and of             *)
(* fetch_single.                                                           *)
InitRetry ==
    InitWith([max_concurrent_requests : {1}, max_retries : 0..MaxRetriesDeep],
             BOOLEAN)

NextRetry ==
    \/ Start
    \/ QueueFeed(Normal)
    \/ GetResults
    \/ Dispatcher
    \/ \E w \in DOMAIN workers :
          Worker(w, Verdicts, FetchOutcomes, {"found"}, {Some(0)})

SpecRetry == InitRetry /\ [][NextRetry]_vars

(* SpecStop: shutdown. The scheduler with and without a database, where    *)
(* every spawned fetch task keeps being polled by the runtime: its rate    *)
(* limiter wait, its attempts and its sleeps all end.                      *)
InitStop ==
    InitWith([max_concurrent_requests : {MaxConcurrent},
              max_retries : {MaxRetries}], BOOLEAN)

\* a step of the spawned fetch task u, if it is in flight
StopWorker(u) ==
    /\ u \in DOMAIN workers
    /\ Worker(u, Verdicts, {"Ok", "NetworkError"}, {"found"}, {Some(0)})

NextStop ==
    \/ Start
    \/ Stop
    \/ QueueFeed(Normal)
    \/ GetResults
    \/ Dispatcher
    \/ \E u \in 1..MaxTasks : StopWorker(u)

SpecStop ==
    /\ InitStop
    /\ [][NextStop]_vars
    /\ \A u \in 1..MaxTasks : WF_vars(StopWorker(u))

(* SpecSummary: one refresh after another, database bound. The feeds are  *)
(* queued at the priority refresh_all_feeds uses and completed by the      *)
(* workers, and the summary is read at any time.                           *)
InitSummary ==
    InitWith([max_concurrent_requests : {1}, max_retries : {0}], {TRUE})

NextSummary ==
    \/ Start
    \/ (n_queued < MaxCoordTasks /\ QueueFeed(High))
    \/ Dispatcher
    \/ \E w \in DOMAIN workers :
          Worker(w, {"Ok"}, {"Ok", "NetworkError"}, {"found"}, {Some(0)})
    \/ \E n \in 1..MaxTotalFeeds :
          StartRefreshOperationUpTo(n, MaxRefreshOpsDeep)
    \/ GetLastRefreshSummary

SpecSummary == InitSummary /\ [][NextSummary]_vars

(* SpecBackoff: calculate_exponential_backoff as a function, applied once  *)
(* to every attempt index up to MaxAttempt and every pair of delays.       *)
InitBackoff ==
    /\ InitFetcher([max_concurrent_requests : {1}, max_retries : {MaxAttempt}],
                   {FALSE})
    /\ backoff \in [attempt : 0..MaxAttempt,
                     base_retry_delay : 0..MaxBaseDelay,
                     max_retry_delay : 0..MaxCapDelay,
                     called : {FALSE}, delay : {None}]
    /\ InitLimiter({0})
    /\ InitStore
    /\ IdleRequest
    /\ IdleCommand
    /\ InitLocks

NextBackoff == CalculateBackoff

SpecBackoff == InitBackoff /\ [][NextBackoff]_vars

(* SpecLimiter: the rate limiter. Callers, overlapping or not, call        *)
(* wait_if_needed for a few hosts while time passes, for the min_delay     *)
(* values of MinDelays.                                                    *)
InitLimiterSpec ==
    /\ InitFetcher([max_concurrent_requests : {MaxCallers}, max_retries : {0}],
                   {FALSE})
    /\ IdleBackoff
    /\ InitLimiter(MinDelays)
    /\ InitStore
    /\ IdleRequest
    /\ IdleCommand
    /\ InitLocks

NextLimiter ==
    \/ \E c \in Callers : WaitIfNeeded(c)
    \/ Tick

SpecLimiter == InitLimiterSpec /\ [][NextLimiter]_vars

(* SpecLive: the scheduler where the runtime keeps polling the dispatcher  *)
(* and every spawned fetch task, whose waits, attempts and sleeps all end. *)
(* Callers start, stop and queue as they like.                             *)
InitLive ==
    InitWith([max_concurrent_requests : 1..MaxConcurrent,
              max_retries : {0}], {FALSE})

NextLive ==
    \/ Start
    \/ Stop
    \/ \E p \in {Normal, High} : QueueFeed(p)
    \/ GetResults
    \/ Dispatcher
    \/ \E u \in 1..MaxTasks : StopWorker(u)

SpecLive ==
    /\ InitLive
    /\ [][NextLive]_vars
    /\ WF_vars(Dispatcher)
    /\ \A u \in 1..MaxTasks : WF_vars(StopWorker(u))

(* SpecStore: the store under the fetcher's saves, database bound. Fetch   *)
(* results, errors and documents with absent, empty, repeated and shared   *)
(* links, arrive for stored and unknown URLs and are handled one after the *)
(* other or at the same time, during a refresh.                            *)
InitStoreSpec ==
    InitWith([max_concurrent_requests : {MaxHandlers}, max_retries : {0}],
             {TRUE})

NextStore ==
    \/ StartRefreshOperation(MaxTotalFeeds)
    \/ \E h \in HandlerIds :
          \/ \E url \in Urls, doc \in Documents :
                HandleFetchResult(h, url, "Ok", doc)
          \/ \E url \in Urls : HandleFetchResult(h, url, "Timeout", <<>>)
          \/ HandleFetchResultSteps(h)

SpecStore == InitStoreSpec /\ [][NextStore]_vars

(* SpecCommands: the async commands, invoked on an application state with  *)
(* or without a fetcher (no database bound to it) and a store holding any  *)
(* set of feeds, while the pool dispatches and fetches what they queue.    *)
InitCommands ==
    /\ InitFetcher([max_concurrent_requests : {MaxConcurrent},
                    max_retries : {0}], {FALSE})
    /\ IdleBackoff
    /\ InitLimiter({0})
    /\ InitStoreWith(SUBSET FeedIds)
    /\ IdleRequest
    /\ command \in [async_fetcher : BOOLEAN, n_invoked : {0},
                     name : {Unset}, ret : {None}]
    /\ InitLocks

NextCommands ==
    \/ AsyncCommand
    \/ Dispatcher
    \/ \E w \in DOMAIN workers :
          Worker(w, {"Ok"}, {"Ok", "Timeout"}, {"found"}, {Some(0)})

SpecCommands == InitCommands /\ [][NextCommands]_vars

(* SpecFetch: one attempt of fetch_single against every server of Servers, *)
(* for the request timeouts up to MaxRequestTimeout. The runtime keeps     *)
(* polling the attempt and its timer, and time keeps passing.              *)
InitFetch ==
    /\ InitFetcher([max_concurrent_requests : {1}, max_retries : {0}],
                   {FALSE})
    /\ IdleBackoff
    /\ InitLimiter({0})
    /\ InitStore
    /\ IdleCommand
    /\ request \in [pc : {"idle"}, request_timeout : 1..MaxRequestTimeout,
                     server : {None}, elapsed : {0}, ret : {Unset}]
    /\ InitLocks

NextFetch ==
    \/ FetchSingle
    \/ FetchSingleTick

SpecFetch ==
    /\ InitFetch
    /\ [][NextFetch]_vars
    /\ WF_vars(FetchSingle)
    /\ WF_vars(FetchSingleTick)

(* SpecRefresh: refresh_all_feeds on a fetcher with a database bound, over *)
(* a store of one or more feeds (the tasks it queues carry the URLs of the *)
(* feeds). The fetcher is started and stopped, a feed is deleted while the *)
(* refresh runs, and the runtime keeps polling the dispatcher and every    *)
(* spawned fetch task, whose waits, attempts and sleeps all end.           *)
InitRefresh ==
    /\ InitFetcher([max_concurrent_requests : 1..MaxConcurrent,
                    max_retries : 0..MaxRetries], {TRUE})
    /\ IdleBackoff
    /\ InitLimiter({0})
    /\ InitStoreWith({1..n : n \in 1..MaxFeeds})
    /\ IdleRequest
    /\ command \in [async_fetcher : {TRUE}, n_invoked : {0},
                     name : {Unset}, ret : {None}]
    /\ InitLocks

NextRefresh ==
    \/ Start
    \/ Stop
    \/ (n_refresh_ops < MaxRefreshOps /\ RefreshAllFeeds(TRUE))
    \/ \E id \in FeedIds : (n_refresh_ops > 0 /\ DeleteFeed(id))
    \/ Dispatcher
    \/ \E u \in 1..MaxTasks : RefreshWorker(u)

SpecRefresh ==
    /\ InitRefresh
    /\ [][NextRefresh]_vars
    /\ WF_vars(Dispatcher)
    /\ \A u \in 1..MaxTasks : WF_vars(RefreshWorker(u))

(* SpecLocks: the coordinator's methods called by concurrent callers, each *)
(* step of a call taken on its own: joining the queue of a lock, getting   *)
(* the lock, the body under the lock. The runtime keeps polling every      *)
(* call.                                                                   *)
InitLocksSpec ==
    InitWith([max_concurrent_requests : {1}, max_retries : {0}], {TRUE})

NextLocks ==
    \E c \in LockCallers :
        \/ \E call \in LockCallsOf : LockBegin(c, call[1], call[2])
        \/ LockStep(c)

SpecLocks ==
    /\ InitLocksSpec
    /\ [][NextLocks]_vars
    /\ \A c \in LockCallers : WF_vars(LockStep(c))
====
